---- MODULE Spec2Model ----
(***************************************************************************)
(* Story engine of the visual novel: the POST route that frames a round's  *)
(* markup (route.ts), the two markup extractors (xmlParser.ts), and the    *)
(* playback sequencer (VisualNovel.tsx driving TypingText.tsx).            *)
(*                                                                         *)
(* A string is a sequence of one-character strings, so that slicing,       *)
(* searching, trimming and chunking are computed character by character.   *)
(***************************************************************************)
EXTENDS Integers, Sequences, FiniteSets, TLC

VARIABLES
    \* ---- markup extraction (xmlParser.ts, fetchStory's accumulation)
    blocks,       \* the blocks the round's markup is the concatenation of
    markup,       \* the round's markup string
    sent,         \* number of characters of markup already delivered
    nChunks,      \* number of chunks delivered so far
    xmlContent,   \* fetchStory: accumulated content payloads
    loaded,       \* fetchStory: <<segments>> once the complete frame is parsed, else <<>>
    parser,       \* the XMLStreamParser instance
    reader,       \* fetchStory: the response body in flight, decoder and line buffer
    \* ---- the story route (route.ts)
    srvPc,        \* "idle" | "streaming" | "closed" | "failed"
    request,      \* the body of the request being served
    generated,    \* what llmService.generateStory did for it
    content,      \* POST: content
    srvChoices,   \* POST: choices
    index,        \* pushChunk: index
    frames,       \* the frames enqueued on the response stream so far
    \* ---- the client (VisualNovel.tsx, TypingText.tsx, the save manager)
    gameStarted,          \* VisualNovel state
    isLoading,
    fastMode,
    currentSegments,
    currentSegmentIndex,  \* counted from 0, as in the code
    choices,
    tt,                   \* the TypingText instance: its state, text prop and timeout
    history,              \* the conversation history kept by the save manager
    respChoices,          \* the choices the round in flight will carry
    rounds,               \* number of rounds requested so far
    histAtLoad,           \* Len(history) when the current round was loaded
    autoSave,             \* the save manager's auto-save slot
    saves,                \* the save manager's list of named saves
    restored,             \* the save the state on screen was restored from
    historyWriteFails,    \* does localStorage.setItem of the history throw?
    \* ---- components of their own (TypingText.tsx, the image cache)
    mtt,                  \* a MultiTypingText instance
    images                \* the ImageCacheManager, for one src

parserVars == <<blocks, markup, sent, nChunks, xmlContent, loaded, parser, reader>>
routeVars == <<srvPc, request, generated, content, srvChoices, index, frames>>
clientVars == <<gameStarted, isLoading, fastMode, currentSegments, currentSegmentIndex,
                choices, tt, history, respChoices, rounds, histAtLoad,
                autoSave, saves, restored, historyWriteFails>>
widgetVars == <<mtt, images>>
vars == <<parserVars, routeVars, clientVars, widgetVars>>

(***************************************************************************)
(* Strings                                                                 *)
(***************************************************************************)
NarratorOpen == <<"<", "N", "a", "r", "r", "a", "t", "o", "r", ">">>
NarratorClose == <<"<", "/", "N", "a", "r", "r", "a", "t", "o", "r", ">">>
CharacterOpenPrefix == <<"<", "c", "h", "a", "r", "a", "c", "t", "e", "r", " ", "n", "a", "m", "e", "=", "\"">>
CharacterClose == <<"<", "/", "c", "h", "a", "r", "a", "c", "t", "e", "r", ">">>
ActionOpenPrefix == <<"<", "a", "c", "t", "i", "o", "n", " ", "e", "x", "p", "r", "e", "s", "s", "i", "o", "n", "=", "\"">>
ActionClose == <<"<", "/", "a", "c", "t", "i", "o", "n", ">">>
SayOpen == <<"<", "s", "a", "y", ">">>
SayClose == <<"<", "/", "s", "a", "y", ">">>
Quote == <<"\"">>
Lt == <<"<">>
Gt == <<">">>
Neutral == <<"n", "e", "u", "t", "r", "a", "l">>

\* The value of a field that was never assigned (JavaScript's undefined).
Undefined == <<"undefined">>

\* String.prototype.toLowerCase, on the letters the model's markup uses.
LowerChar(c) ==
    CASE c = "N" -> "n"
      [] c = "H" -> "h"
      [] c = "A" -> "a"
      [] c = "S" -> "s"
      [] c = "V" -> "v"
      [] OTHER -> c

\* The expression as written, in its own case.
KeepCase(s) == s

ToLowerCase(s) == [i \in 1..Len(s) |-> LowerChar(s[i])]

\* Does pat occur in s at (1-based) position i?
MatchAt(s, pat, i) ==
    /\ i >= 1
    /\ i + Len(pat) - 1 <= Len(s)
    /\ SubSeq(s, i, i + Len(pat) - 1) = pat

\* String.prototype.indexOf(pat, from), 1-based; 0 when pat does not occur.
IndexOf(s, pat, from) ==
    LET hits == {i \in from..(Len(s) - Len(pat) + 1) : MatchAt(s, pat, i)} IN
    IF hits = {} THEN 0 ELSE CHOOSE i \in hits : \A j \in hits : i <= j

RECURSIVE TrimStart(_)
TrimStart(s) == IF s # <<>> /\ Head(s) = " " THEN TrimStart(Tail(s)) ELSE s

RECURSIVE TrimEnd(_)
TrimEnd(s) ==
    IF s # <<>> /\ s[Len(s)] = " " THEN TrimEnd(SubSeq(s, 1, Len(s) - 1)) ELSE s

\* String.prototype.trim
Trim(s) == TrimEnd(TrimStart(s))

RECURSIVE Concat(_)
Concat(ss) ==
    IF ss = <<>> THEN <<>>
    ELSE IF Len(ss) = 1 THEN ss[1]
    ELSE LET half == Len(ss) \div 2
         IN Concat(SubSeq(ss, 1, half)) \o Concat(SubSeq(ss, half + 1, Len(ss)))

(***************************************************************************)
(* Segments.  Every segment record carries the same fields; a field the    *)
(* code leaves unset holds Undefined.                                      *)
(***************************************************************************)
NarratorSegment(text) ==
    [type |-> "narrator", name |-> Undefined, expression |-> Undefined,
     text |-> text, action |-> Undefined]

CharacterSegment(name, expression, text, action) ==
    [type |-> "character", name |-> name, expression |-> expression,
     text |-> text, action |-> action]

(***************************************************************************)
(* parseSimpleXML: the regex extractor                                     *)
(***************************************************************************)
\* /<Narrator>(.*?)<\/Narrator>/gs, exec'd repeatedly from lastIndex = pos:
\* the captured texts, in match order.
RECURSIVE narratorRegex(_, _)
narratorRegex(s, pos) ==
    LET i == IndexOf(s, NarratorOpen, pos) IN
    IF i = 0 THEN <<>>
    ELSE LET j == IndexOf(s, NarratorClose, i + Len(NarratorOpen)) IN
         IF j = 0 THEN <<>>
         ELSE <<SubSeq(s, i + Len(NarratorOpen), j - 1)>>
                  \o narratorRegex(s, j + Len(NarratorClose))

\* /<character name="([^"]+)">(.*?)<\/character>/gs, all matches from pos:
\* records of the two capture groups.
RECURSIVE characterRegex(_, _)
characterRegex(s, pos) ==
    LET i == IndexOf(s, CharacterOpenPrefix, pos) IN
    IF i = 0 THEN <<>>
    ELSE LET n == i + Len(CharacterOpenPrefix)
             q == IndexOf(s, Quote, n)
             j == IF q > n /\ MatchAt(s, Gt, q + 1)
                  THEN IndexOf(s, CharacterClose, q + 2) ELSE 0
         IN IF j = 0 THEN characterRegex(s, i + 1)
            ELSE <<[name |-> SubSeq(s, n, q - 1), content |-> SubSeq(s, q + 2, j - 1)]>>
                     \o characterRegex(s, j + Len(CharacterClose))

\* /<action expression="([^"]+)">([^<]*)<\/action>/g, all matches from pos.
RECURSIVE actionRegex(_, _)
actionRegex(s, pos) ==
    LET i == IndexOf(s, ActionOpenPrefix, pos) IN
    IF i = 0 THEN <<>>
    ELSE LET n == i + Len(ActionOpenPrefix)
             q == IndexOf(s, Quote, n)
             l == IF q > n /\ MatchAt(s, Gt, q + 1) THEN IndexOf(s, Lt, q + 2) ELSE 0
         IN IF l = 0 \/ ~MatchAt(s, ActionClose, l) THEN actionRegex(s, i + 1)
            ELSE <<[expression |-> SubSeq(s, n, q - 1), text |-> SubSeq(s, q + 2, l - 1)]>>
                     \o actionRegex(s, l + Len(ActionClose))

\* /<say>([^<]*)<\/say>/g, all matches from pos: the captured texts.
RECURSIVE sayRegex(_, _)
sayRegex(s, pos) ==
    LET i == IndexOf(s, SayOpen, pos) IN
    IF i = 0 THEN <<>>
    ELSE LET l == IndexOf(s, Lt, i + Len(SayOpen)) IN
         IF l = 0 \/ ~MatchAt(s, SayClose, l) THEN sayRegex(s, i + 1)
         ELSE <<SubSeq(s, i + Len(SayOpen), l - 1)>> \o sayRegex(s, l + Len(SayClose))

\* The first loop of parseSimpleXML: one narrator segment per match.
NarratorSegments(s) ==
    LET m == narratorRegex(s, 1) IN
    [k \in 1..Len(m) |-> NarratorSegment(Trim(m[k]))]

\* The inner loop, giving every say the block's first action.
RECURSIVE DialogueSegmentsFirstAction(_, _, _, _)
DialogueSegmentsFirstAction(characterName, actionMatches, sayMatches, i) ==
    IF i > Len(sayMatches) THEN <<>>
    ELSE LET dialogue == Trim(sayMatches[i])
             expression == IF actionMatches # <<>>
                           THEN ToLowerCase(actionMatches[1].expression) ELSE Neutral
             action == IF actionMatches # <<>> THEN Trim(actionMatches[1].text) ELSE <<>>
         IN (IF dialogue # <<>>
             THEN <<CharacterSegment(characterName, expression, dialogue, action)>>
             ELSE <<>>)
            \o DialogueSegmentsFirstAction(characterName, actionMatches, sayMatches, i + 1)

\* The inner loop over sayMatches of one character block.
RECURSIVE DialogueSegments(_, _, _, _)
DialogueSegments(characterName, actionMatches, sayMatches, i) ==
    IF i > Len(sayMatches) THEN <<>>
    ELSE LET dialogue == Trim(sayMatches[i])
             expression == IF i <= Len(actionMatches)
                           THEN ToLowerCase(actionMatches[i].expression) ELSE Neutral
             action == IF i <= Len(actionMatches)
                       THEN Trim(actionMatches[i].text) ELSE <<>>
         IN (IF dialogue # <<>>
             THEN <<CharacterSegment(characterName, expression, dialogue, action)>>
             ELSE <<>>)
            \o DialogueSegments(characterName, actionMatches, sayMatches, i + 1)

\* The loop over characterMatches, taken from the last match to the first.
RECURSIVE CharacterSegmentsLastFirst(_)
CharacterSegmentsLastFirst(characterMatches) ==
    IF characterMatches = <<>> THEN <<>>
    ELSE LET m == Head(characterMatches) IN
         CharacterSegmentsLastFirst(Tail(characterMatches))
             \o DialogueSegments(m.name, actionRegex(m.content, 1), sayRegex(m.content, 1), 1)

\* The loop over characterMatches.
RECURSIVE CharacterSegments(_)
CharacterSegments(characterMatches) ==
    IF characterMatches = <<>> THEN <<>>
    ELSE LET m == Head(characterMatches) IN
         DialogueSegments(m.name, actionRegex(m.content, 1), sayRegex(m.content, 1), 1)
             \o CharacterSegments(Tail(characterMatches))

parseSimpleXML(xmlString) ==
    IF xmlString = <<>> \/ Trim(xmlString) = <<>> THEN <<>>
    ELSE NarratorSegments(xmlString) \o CharacterSegments(characterRegex(xmlString, 1))

(***************************************************************************)
(* XMLStreamParser: the streaming extractor                                *)
(***************************************************************************)
\* currentSegment = null
NullSegment ==
    [type |-> "null", name |-> Undefined, expression |-> Undefined,
     text |-> Undefined, action |-> Undefined]

\* A freshly constructed parser (the field initialisers; also reset()).
NewParser ==
    [buffer |-> <<>>, segments |-> <<>>, currentSegment |-> NullSegment,
     isInTag |-> FALSE, tagName |-> <<>>,
     attributes |-> [name |-> Undefined, expression |-> Undefined]]

\* String.prototype.split(' ')
RECURSIVE Split(_)
Split(s) ==
    LET k == IndexOf(s, <<" ">>, 1) IN
    IF k = 0 THEN <<s>>
    ELSE <<SubSeq(s, 1, k - 1)>> \o Split(SubSeq(s, k + 1, Len(s)))

\* .replace(/['"]/g, '')
StripQuotes(s) == SelectSeq(s, LAMBDA c : c \notin {"'", "\""})

\* The attribute loop of parseTag, for one key: the value the last part
\* "key=value" assigns, Undefined when no part assigns the key.
RECURSIVE AttributeOf(_, _, _)
AttributeOf(parts, key, i) ==
    IF i < 2 THEN Undefined
    ELSE LET attrPart == parts[i]
             equalIndex == IndexOf(attrPart, <<"=">>, 1)
         IN IF equalIndex > 1 /\ SubSeq(attrPart, 1, equalIndex - 1) = key
            THEN StripQuotes(SubSeq(attrPart, equalIndex + 1, Len(attrPart)))
            ELSE AttributeOf(parts, key, i - 1)

parseTag(p, tagContent) ==
    LET parts == Split(tagContent) IN
    [p EXCEPT !.tagName = ToLowerCase(parts[1]),
              !.attributes =
                  [name |-> AttributeOf(parts, <<"n", "a", "m", "e">>, Len(parts)),
                   expression |-> AttributeOf(parts,
                       <<"e", "x", "p", "r", "e", "s", "s", "i", "o", "n">>, Len(parts))]]

handleTagStart(p, at) ==
    LET tagEndIndex == IndexOf(p.buffer, Gt, at) IN
    IF tagEndIndex = 0 THEN p
    ELSE [parseTag(p, SubSeq(p.buffer, at + 1, tagEndIndex - 1)) EXCEPT !.isInTag = TRUE]

\* value || fallback, for an attribute value
OrElse(value, fallback) == IF value = Undefined \/ value = <<>> THEN fallback ELSE value

handleOpeningTag(p) ==
    CASE p.tagName = <<"n", "a", "r", "r", "a", "t", "o", "r">> ->
            [p EXCEPT !.currentSegment = NarratorSegment(<<>>)]
      [] p.tagName = <<"c", "h", "a", "r", "a", "c", "t", "e", "r">> ->
            [p EXCEPT !.currentSegment =
                CharacterSegment(OrElse(p.attributes.name, <<>>),
                                 OrElse(p.attributes.expression, Neutral),
                                 <<>>, Undefined)]
      [] p.tagName = <<"a", "c", "t", "i", "o", "n">> ->
            IF p.currentSegment.type = "character"
            THEN [p EXCEPT !.currentSegment.action = <<>>,
                           !.currentSegment.expression =
                               OrElse(p.attributes.expression, Neutral)]
            ELSE p
      [] OTHER -> p

handleClosingTag(p) ==
    LET closingTagName == Tail(p.tagName) IN
    IF closingTagName \in {<<"n", "a", "r", "r", "a", "t", "o", "r">>,
                           <<"c", "h", "a", "r", "a", "c", "t", "e", "r">>}
    THEN [p EXCEPT !.segments =
                       IF p.currentSegment # NullSegment /\ p.currentSegment.text # <<>>
                       THEN Append(@, [p.currentSegment EXCEPT !.text = Trim(@)])
                       ELSE @,
                   !.currentSegment = NullSegment]
    ELSE p

handleTagEnd(p) ==
    LET q == [p EXCEPT !.isInTag = FALSE] IN
    IF q.tagName # <<>> /\ q.tagName[1] = "/"
    THEN handleClosingTag(q)
    ELSE handleOpeningTag(q)

\* handleTextContent, applied to each character of a run of text in turn.
handleTextRun(p, run) ==
    IF p.currentSegment # NullSegment
    THEN [p EXCEPT !.currentSegment.text = @ \o run]
    ELSE p

\* The position of the first "<" or ">" at or after i, Len + 1 when there is none.
NextBracket(buffer, i) ==
    LET hits == {k \in i..Len(buffer) : buffer[k] \in {"<", ">"}} IN
    IF hits = {} THEN Len(buffer) + 1 ELSE CHOOSE k \in hits : \A j \in hits : k <= j

\* The while loop of processBuffer, from index i to the end of the buffer.  The
\* characters between two brackets take the same branch of the loop body one
\* after the other (isInTag does not change between them), so the run is
\* handled in one step.
RECURSIVE processBufferFrom(_, _)
processBufferFrom(p, i) ==
    IF i > Len(p.buffer) THEN p
    ELSE LET char == p.buffer[i]
             k == NextBracket(p.buffer, i)
         IN IF char = "<" THEN processBufferFrom(handleTagStart(p, i), i + 1)
            ELSE IF char = ">" THEN processBufferFrom(handleTagEnd(p), i + 1)
            ELSE IF ~p.isInTag
            THEN processBufferFrom(handleTextRun(p, SubSeq(p.buffer, i, k - 1)), k)
            ELSE processBufferFrom(p, k)

\* Every pass scans the whole buffer again, from its first character.
processBuffer(p) == processBufferFrom(p, 1)

\* parseChunk: the parser after the call; its segments field is what the call returns.
parseChunk(p, chunk) == processBuffer([p EXCEPT !.buffer = @ \o chunk])

\* parseXMLToSegments: one pass of a fresh parser over the whole string.
parseXMLToSegments(xmlString) == parseChunk(NewParser, xmlString).segments

(***************************************************************************)
(* Markup of a round.  The blocks follow the format of the route's         *)
(* storySegments, with one-letter texts.                                   *)
(***************************************************************************)
MaxBlocks == 2     \* blocks per round markup
MaxChunks == 2     \* parseChunk calls per markup

\* fetchStory before the first read: nothing in flight, nothing decoded, no
\* line begun, no frame processed.
NoReader == [wire |-> <<>>, pending |-> <<>>, buffer |-> <<>>, seen |-> <<>>]

Narrator(text) == NarratorOpen \o text \o NarratorClose
Say(text) == SayOpen \o text \o SayClose
Action(expression, text) ==
    ActionOpenPrefix \o expression \o <<"\"", ">">> \o text \o ActionClose
Character(name, body) ==
    CharacterOpenPrefix \o name \o <<"\"", ">">> \o body \o CharacterClose

Blocks ==
    { Narrator(<<" ", "a">>),
      Narrator(<<" ">>),
      Character(<<"A">>, Say(<<"b">>)),
      Character(<<"A">>, Action(<<"H">>, <<"s">>) \o Say(<<"c">>) \o Say(<<" ">>)) }

BlockSeqs == UNION {[1..n -> Blocks] : n \in 1..MaxBlocks}

NotLoaded == <<>>

(***************************************************************************)
(* The story route: POST and GET of /api/story                             *)
(***************************************************************************)
MinChunk == 5      \* Math.floor(Math.random() * 8) + 5
ChunkSpan == 8

NoChoice == "undefined"

Choice(id, text) == [id |-> id, text |-> text]

EndStory == Choice("end_story", "End story and return to home")

\* The mock story.  The route only measures, slices and searches content, so
\* each entry's markup is cut down to one narrator block with a one-letter
\* text; ids, choices and their order are the route's.
storySegments ==
    << [id |-> "intro", content |-> Narrator(<<"i">>),
        choices |-> << Choice("greet_friendly", "Greet everyone with a friendly smile"),
                       Choice("stay_silent", "Stay silent and observe the situation"),
                       Choice("ask_about_harbor", "Ask about what's happening in Liyue Harbor"),
                       EndStory >>],
       [id |-> "character_responses", content |-> Narrator(<<"r">>),
        choices |-> << Choice("ask_lumine", "Ask Lumine more about her travels between worlds"),
                       Choice("challenge_tartaglia", "Accept Tartaglia's challenge and show your skills"),
                       Choice("listen_venti", "Ask Venti to play his new ballad"),
                       Choice("talk_zhongli", "Discuss the mysterious contracts with Zhongli"),
                       EndStory >>],
       [id |-> "lumine_path", content |-> Narrator(<<"l">>), choices |-> <<>>],
       [id |-> "tartaglia_path", content |-> Narrator(<<"t">>), choices |-> <<>>],
       [id |-> "venti_path", content |-> Narrator(<<"v">>), choices |-> <<>>],
       [id |-> "zhongli_path", content |-> Narrator(<<"z">>), choices |-> <<>>] >>

\* The choices given to LLM-generated content.
LLMChoices ==
    << Choice("continue_1", "Continue the conversation"),
       Choice("ask_question", "Ask a question"),
       Choice("change_topic", "Change the subject"),
       EndStory >>

\* The catch branch of the LLM call (its narrator text cut down to one letter).
FallbackContent == Narrator(<<"f">>)
FallbackChoices ==
    << Choice("greet_friendly", "Greet everyone with a friendly smile"),
       Choice("stay_silent", "Stay silent and observe the situation"),
       EndStory >>

StoryComplete == <<"S", "t", "o", "r", "y", " ", "C", "o", "m", "p", "l", "e", "t", "e">>

\* What llmService.generateStory can do: return a string, or throw.
LLMOutputs == { Narrator(<<"g">>), StoryComplete, <<>> }
GeneratorOutcomes ==
    {[ok |-> TRUE, text |-> t] : t \in LLMOutputs} \cup {[ok |-> FALSE, text |-> <<>>]}
NotGenerated == [ok |-> TRUE, text |-> Undefined]

\* The switch on choice, sending 'ask_lumine' back to the first entry.
SelectedSegmentLoops(choice) ==
    IF choice = NoChoice \/ choice = "ask_lumine" THEN 1 ELSE 2

\* The ids of the choices the mock story offers.
ChoiceIds ==
    UNION {{storySegments[i].choices[j].id : j \in 1..Len(storySegments[i].choices)} :
              i \in 1..Len(storySegments)}

\* The switch on choice in the predefined branch: the index (1-based) of the
\* selected entry of storySegments.
SelectedSegment(choice) ==
    IF choice = NoChoice THEN 1
    ELSE CASE choice \in {"greet_friendly", "stay_silent", "ask_about_harbor"} -> 2
           [] choice = "ask_lumine" -> 3
           [] choice = "challenge_tartaglia" -> 4
           [] choice = "listen_venti" -> 5
           [] choice = "talk_zhongli" -> 6
           [] OTHER -> 2

\* PostContent without the catch branch's fallback markup.
PostContentNoFallback(req, gen) ==
    IF req.useLLM
    THEN gen.text
    ELSE storySegments[SelectedSegment(req.choice)].content

\* The content and choices POST settles on before it opens the stream.
PostContent(req, gen) ==
    IF req.useLLM
    THEN IF gen.ok THEN gen.text ELSE FallbackContent
    ELSE storySegments[SelectedSegment(req.choice)].content

PostChoices(req, gen) ==
    IF req.useLLM
    THEN IF gen.ok
         THEN IF gen.text # <<>> /\ IndexOf(gen.text, StoryComplete, 1) = 0
              THEN LLMChoices ELSE <<>>
         ELSE FallbackChoices
    ELSE storySegments[SelectedSegment(req.choice)].choices

ContentFrameOf(data) == [type |-> "content", data |-> data, choices |-> <<>>]
CompleteFrameOf(cs) == [type |-> "complete", data |-> <<>>, choices |-> cs]

\* Slice, starting one character late.
SliceLate(str, from, size) == SubSeq(str, from + 2, from + size)

\* content.slice(index, index + chunkSize), index counted from 0
Slice(str, from, size) == SubSeq(str, from + 1, from + size)

\* Math.min(Math.floor(Math.random() * 8) + 5, content.length - index)
ChunkSize(r, remaining) == IF r + MinChunk < remaining THEN r + MinChunk ELSE remaining

RouteIdle ==
    /\ srvPc = "idle"
    /\ request = [choice |-> NoChoice, fastMode |-> FALSE, useLLM |-> FALSE]
    /\ generated = NotGenerated
    /\ content = <<>>
    /\ srvChoices = <<>>
    /\ index = 0
    /\ frames = <<>>

\* POST without the fast branch: every round is streamed by pushChunk.
PostAlwaysStreams(req, gen) ==
    /\ srvPc \in {"idle", "closed", "failed"}
    /\ request' = req
    /\ generated' = gen
    /\ content' = PostContent(req, gen)
    /\ srvChoices' = PostChoices(req, gen)
    /\ index' = 0
    /\ frames' = <<>>
    /\ srvPc' = "streaming"
    /\ UNCHANGED <<widgetVars, parserVars, clientVars>>

\* POST, up to the return of the response: the round's content and choices,
\* and start(controller), which in fast mode enqueues everything at once.
Post(req, gen) ==
    /\ srvPc \in {"idle", "closed", "failed"}
    /\ request' = req
    /\ generated' = gen
    /\ content' = PostContent(req, gen)
    /\ srvChoices' = PostChoices(req, gen)
    /\ index' = 0
    /\ IF req.fastMode
       THEN /\ frames' = << ContentFrameOf(PostContent(req, gen)),
                            CompleteFrameOf(PostChoices(req, gen)) >>
            /\ srvPc' = "closed"
       ELSE /\ frames' = <<>>
            /\ srvPc' = "streaming"
    /\ UNCHANGED <<widgetVars, parserVars, clientVars>>

\* POST when request.json() rejects: the outer catch answers 500, no stream.
PostMalformed ==
    /\ srvPc \in {"idle", "closed", "failed"}
    /\ srvPc' = "failed"
    /\ frames' = <<>>
    /\ generated' = NotGenerated
    /\ content' = <<>>
    /\ srvChoices' = <<>>
    /\ index' = 0
    /\ UNCHANGED <<widgetVars, request, parserVars, clientVars>>

\* pushChunk without controller.close(): the stream stays open after the
\* complete frame.
PushChunkNoClose(r) ==
    /\ srvPc = "streaming"
    /\ IF index < Len(content)
       THEN LET chunkSize == ChunkSize(r, Len(content) - index) IN
            /\ frames' = Append(frames, ContentFrameOf(Slice(content, index, chunkSize)))
            /\ index' = index + chunkSize
       ELSE /\ frames' = Append(frames, CompleteFrameOf(srvChoices))
            /\ UNCHANGED index
    /\ UNCHANGED <<widgetVars, srvPc, request, generated, content, srvChoices, parserVars, clientVars>>

\* One run of pushChunk, r being Math.floor(Math.random() * 8).
PushChunk(r) ==
    /\ srvPc = "streaming"
    /\ IF index < Len(content)
       THEN LET chunkSize == ChunkSize(r, Len(content) - index) IN
            /\ frames' = Append(frames, ContentFrameOf(Slice(content, index, chunkSize)))
            /\ index' = index + chunkSize
            /\ UNCHANGED srvPc
       ELSE /\ frames' = Append(frames, CompleteFrameOf(srvChoices))
            /\ srvPc' = "closed"
            /\ UNCHANGED index
    /\ UNCHANGED <<widgetVars, request, generated, content, srvChoices, parserVars, clientVars>>

\* GET: the entry with the given id (the first entry when there is none);
\* start(controller) runs pushChunk once before it returns.
Get(storyId, r) ==
    /\ srvPc \in {"idle", "closed", "failed"}
    /\ LET found == {i \in 1..Len(storySegments) : storySegments[i].id = storyId}
           storySegment == IF found = {} THEN storySegments[1]
                           ELSE storySegments[CHOOSE i \in found : TRUE]
           chunkSize == ChunkSize(r, Len(storySegment.content))
       IN /\ content' = storySegment.content
          /\ srvChoices' = storySegment.choices
          /\ frames' = << ContentFrameOf(Slice(storySegment.content, 0, chunkSize)) >>
          /\ index' = chunkSize
    /\ request' = [choice |-> NoChoice, fastMode |-> FALSE, useLLM |-> FALSE]
    /\ generated' = NotGenerated
    /\ srvPc' = "streaming"
    /\ UNCHANGED <<widgetVars, parserVars, clientVars>>

Requests ==
    [choice : ChoiceIds \cup {NoChoice, "continue_1"}, fastMode : BOOLEAN, useLLM : BOOLEAN]

(***************************************************************************)
(* The save manager's conversation history                                 *)
(***************************************************************************)
MAX_HISTORY_ENTRIES == 1000

\* The body of addToHistory's try: push, keep the most recent
\* MAX_HISTORY_ENTRIES, store.
pushToHistory(h, entry) ==
    LET pushed == Append(h, entry) IN
    IF Len(pushed) > MAX_HISTORY_ENTRIES
    THEN SubSeq(pushed, Len(pushed) - MAX_HISTORY_ENTRIES + 1, Len(pushed))
    ELSE pushed

\* addToHistory: the stored history after the call.  When the write throws,
\* the catch logs the error and the stored history is what it was.
addToHistory(h, entry) ==
    IF historyWriteFails THEN h ELSE pushToHistory(h, entry)

StorySegmentEntry(segment) ==
    [type |-> "story_segment", content |-> segment.text, segmentData |-> segment]
UserChoiceEntry(choiceText) ==
    [type |-> "user_choice", content |-> choiceText, segmentData |-> NullSegment]
UserInputEntry(prompt) ==
    [type |-> "user_input", content |-> prompt, segmentData |-> NullSegment]
StoryEndedEntry ==
    [type |-> "story_segment", content |-> "Story ended by user choice.",
     segmentData |-> NullSegment]

(***************************************************************************)
(* TypingText under VisualNovel.  A view is the React state the two        *)
(* components render from, with the history the callbacks write to:        *)
(*   [started, segs, idx, choices, fast, hist, tt, auto, saveDue]          *)
(* tt.text is the text prop of the last render, tt.timer tells whether the *)
(* typing effect's timeout is pending; auto is the auto-save slot, saveDue *)
(* tells whether a dependency of the auto-save effect changed since the    *)
(* last render.                                                            *)
(***************************************************************************)
Unmounted ==
    [mounted |-> FALSE, text |-> <<>>, displayedText |-> <<>>, currentIndex |-> 0,
     isComplete |-> FALSE, isSkipped |-> FALSE, timer |-> FALSE]

\* handleSegmentComplete, called from a render of view v: the history after
\* it, and the index after setCurrentSegmentIndex(prev => prev + 1).
SegmentCompleteHist(v) ==
    IF v.idx < Len(v.segs)
    THEN addToHistory(v.hist, StorySegmentEntry(v.segs[v.idx + 1]))
    ELSE v.hist

\* handleSegmentComplete, left by the history's failure before it moves the
\* index.
SegmentCompleteIdxUnlessFailed(v) ==
    IF v.idx < Len(v.segs) - 1 /\ ~historyWriteFails THEN v.idx + 1 ELSE v.idx

\* handleSegmentComplete, going back to the first segment after the last.
SegmentCompleteIdxWraps(v) ==
    IF v.idx < Len(v.segs) - 1 THEN v.idx + 1 ELSE 0

SegmentCompleteIdx(v) ==
    IF v.idx < Len(v.segs) - 1 THEN v.idx + 1 ELSE v.idx

\* Is <TypingText> rendered?
ShowsTypingText(v) ==
    v.started /\ Len(v.segs) > 0 /\ v.idx < Len(v.segs)

\* One render of view v with the effects it schedules, in declaration order:
\* the typing effect (its dependencies include onComplete, a new function on
\* every parent render, and the TypingText state, so it runs after every
\* render that follows a state change), then the reset effect when the text
\* prop differs from the last render's.  The state updates of one pass are
\* batched: the reset effect's setIsComplete(false) lands after the typing
\* effect's setIsComplete(true).
TypingTextPass(v) ==
    IF ~ShowsTypingText(v) THEN [v EXCEPT !.tt = Unmounted]
    ELSE LET text == v.segs[v.idx + 1].text
             t == IF v.tt.mounted THEN v.tt ELSE Unmounted
             textChanged == ~v.tt.mounted \/ v.tt.text # text
             done == t.isSkipped \/ t.currentIndex >= Len(text)
             fire == done /\ ~t.isComplete
         IN [v EXCEPT
               !.hist = IF fire THEN SegmentCompleteHist(v) ELSE @,
               !.idx = IF fire THEN SegmentCompleteIdx(v) ELSE @,
               !.tt = [mounted |-> TRUE,
                       text |-> text,
                       displayedText |-> IF textChanged THEN <<>> ELSE t.displayedText,
                       currentIndex |-> IF textChanged THEN 0 ELSE t.currentIndex,
                       isComplete |-> IF textChanged THEN FALSE
                                      ELSE IF fire THEN TRUE ELSE t.isComplete,
                       isSkipped |-> IF textChanged THEN FALSE ELSE t.isSkipped,
                       timer |-> ~done]]

\* The segment entries at the end of history h: those of the round being
\* played, every round being requested with a user entry.
RECURSIVE RoundCommitted(_)
RoundCommitted(h) ==
    IF h = <<>> \/ h[Len(h)].type # "story_segment" THEN 0
    ELSE 1 + RoundCommitted(SubSeq(h, 1, Len(h) - 1))

\* The gameState of a save, as far as it is read back (conversationHistory is
\* stored and never read).  committed is bookkeeping: how many segment
\* entries the round had in the history when the save was written.
GameState(v) ==
    [gameStarted |-> v.started, currentSegments |-> v.segs,
     currentSegmentIndex |-> v.idx, choices |-> v.choices, fastMode |-> v.fast,
     committed |-> RoundCommitted(v.hist)]

\* One render of view v: TypingText's pass, then VisualNovel's auto-save
\* effect when one of its dependencies changed and a round is on screen.
RenderPass(v) ==
    [TypingTextPass(v) EXCEPT
        !.auto = IF v.saveDue /\ v.started /\ Len(v.segs) > 0
                 THEN GameState([v EXCEPT !.hist = TypingTextPass(v).hist])
                 ELSE @,
        !.saveDue = TypingTextPass(v).idx # v.idx]

\* The React state of a view: what React compares to decide on another render.
ReactState(v) ==
    <<v.started, v.segs, v.idx, v.tt.displayedText, v.tt.currentIndex,
      v.tt.isComplete, v.tt.isSkipped>>

\* The view a render of v starts from: a TypingText that mounts starts from
\* its initial state.
Rendered(v) ==
    IF ShowsTypingText(v) /\ v.tt.mounted THEN v ELSE [v EXCEPT !.tt = Unmounted]

\* Render, and render again while the effects of a render changed the state.
\* (The pass is bound through a singleton set, which evaluates it once.)
RECURSIVE Render(_)
Render(v) ==
    CHOOSE r \in { IF ReactState(w) = ReactState(Rendered(v)) THEN w ELSE Render(w) :
                      w \in {RenderPass(v)} } : TRUE

View == [started |-> gameStarted, segs |-> currentSegments, idx |-> currentSegmentIndex,
         choices |-> choices, fast |-> fastMode, hist |-> history, tt |-> tt,
         auto |-> autoSave, saveDue |-> FALSE]

\* The view after a handler changed VisualNovel state the auto-save effect
\* depends on.
Changed == [View EXCEPT !.saveDue = TRUE]

\* The view becomes the next state, after rendering.
Commit(v) ==
    \E u \in {v} : \E w \in {Render(u)} :
        /\ gameStarted' = w.started
        /\ currentSegments' = w.segs
        /\ currentSegmentIndex' = w.idx
        /\ choices' = w.choices
        /\ fastMode' = w.fast
        /\ history' = w.hist
        /\ tt' = w.tt
        /\ autoSave' = w.auto

MaxRounds == 2     \* rounds requested in one run

\* The choice lists a round can carry: none (the story ends), or choices
\* that continue plus the reserved end choice.
ChoiceLists ==
    { <<>>, << Choice("continue_1", "Continue the conversation"), EndStory >> }

(***************************************************************************)
(* MultiTypingText: a list of texts revealed one after the other           *)
(***************************************************************************)
MaxSegments == 4   \* segments in the list given to MultiTypingText

\* No MultiTypingText on screen.
NoMulti ==
    [segments |-> <<>>, currentSegmentIndex |-> 0, completedSegments |-> <<>>,
     typing |-> FALSE, timers |-> 0, allComplete |-> 0]

\* Mounted with a list of texts: the first one is being typed.  typing: the
\* TypingText on screen has not completed; timers: the timeouts set by
\* handleSegmentComplete and not fired yet; allComplete: calls of
\* onAllComplete so far.
MountedMulti(texts) ==
    [segments |-> texts, currentSegmentIndex |-> 0, completedSegments |-> <<>>,
     typing |-> TRUE, timers |-> 0, allComplete |-> 0]

SegmentLists == UNION {[1..n -> {<<"a">>, <<"b">>}] : n \in 1..MaxSegments}

\* handleSegmentComplete as created by the render that saw index i.
handleSegmentCompleteAt(m, i) ==
    [m EXCEPT !.completedSegments = Append(@, m.segments[i + 1]),
              !.timers = IF i < Len(m.segments) - 1 THEN @ + 1 ELSE @,
              !.allComplete = IF i < Len(m.segments) - 1 THEN @ ELSE @ + 1]

\* skipAll
skipAll(m) ==
    [m EXCEPT !.completedSegments = m.segments,
              !.currentSegmentIndex = Len(m.segments),
              !.allComplete = @ + 1]

\* The TypingText on screen types its text to the end: onComplete.
TypingDone ==
    /\ mtt.typing
    /\ mtt' = [handleSegmentCompleteAt(mtt, mtt.currentSegmentIndex) EXCEPT !.typing = FALSE]
    /\ UNCHANGED <<parserVars, routeVars, clientVars, images>>

\* A click or a key while the TypingText on screen is typing: skipAnimation
\* calls onSkip, which is skipAll, and then onComplete.
SkipSegment ==
    /\ mtt.typing
    /\ mtt' = [handleSegmentCompleteAt(skipAll(mtt), mtt.currentSegmentIndex)
                  EXCEPT !.typing = FALSE]
    /\ UNCHANGED <<parserVars, routeVars, clientVars, images>>

\* A timeout set by handleSegmentComplete fires: the index moves on.  The
\* TypingText is the same instance: it starts over only when its text prop
\* changes.
AdvanceTimer ==
    /\ mtt.timers > 0
    /\ LET i == mtt.currentSegmentIndex
           n == Len(mtt.segments)
       IN mtt' = [mtt EXCEPT
                     !.timers = @ - 1,
                     !.currentSegmentIndex = i + 1,
                     !.typing = IF i + 1 >= n THEN FALSE
                                ELSE IF i < n /\ mtt.segments[i + 2] = mtt.segments[i + 1]
                                     THEN @ ELSE TRUE]
    /\ UNCHANGED <<parserVars, routeVars, clientVars, images>>

(***************************************************************************)
(* ImageCacheManager, for one src                                          *)
(***************************************************************************)
MaxAttempts == 3   \* loads of the src started

\* Nothing cached, nothing loading.  cache and loading: the attempt whose
\* image is in the cache, whose promise is in loadingPromises (0: no entry);
\* returned: what the last preloadImage call returned.
NoImages ==
    [cache |-> 0, loading |-> 0, attempts |-> <<>>, returned |-> "none",
     cleared |-> FALSE]

\* new Image() with its two listeners, the timeout set, img.src assigned.
NewAttempt == [img |-> "pending", listeners |-> TRUE, timer |-> TRUE, promise |-> "pending"]

\* onError of attempt i
onError(c, i) ==
    [c EXCEPT !.loading = 0,
              !.attempts[i].promise = IF @ = "pending" THEN "rejected" ELSE @]

\* preloadImage(src)
PreloadImage ==
    /\ IF images.cache # 0
       THEN images' = [images EXCEPT !.returned = "image"]
       ELSE IF images.loading # 0
       THEN images' = [images EXCEPT !.returned = "pending promise"]
       ELSE /\ Len(images.attempts) < MaxAttempts
            /\ images' = [images EXCEPT !.attempts = Append(@, NewAttempt),
                                        !.loading = Len(images.attempts) + 1,
                                        !.returned = "new promise"]
    /\ images' # images
    /\ UNCHANGED <<parserVars, routeVars, clientVars, mtt>>

\* The image of attempt i is loaded: its load event.
ImgLoad(i) ==
    /\ images.attempts[i].img = "pending"
    /\ images' = IF images.attempts[i].listeners
                 THEN [images EXCEPT !.cache = i, !.loading = 0,
                                     !.attempts[i] = [@ EXCEPT !.img = "loaded",
                                                               !.listeners = FALSE,
                                                               !.promise = "resolved"]]
                 ELSE [images EXCEPT !.attempts[i].img = "loaded"]
    /\ UNCHANGED <<parserVars, routeVars, clientVars, mtt>>

\* The image of attempt i fails to load: its error event.
ImgError(i) ==
    /\ images.attempts[i].img = "pending"
    /\ images' = IF images.attempts[i].listeners
                 THEN [onError(images, i) EXCEPT !.attempts[i].img = "error",
                                                 !.attempts[i].listeners = FALSE]
                 ELSE [images EXCEPT !.attempts[i].img = "error"]
    /\ UNCHANGED <<parserVars, routeVars, clientVars, mtt>>

\* The 10-second timeout of attempt i fires.
Timeout(i) ==
    /\ images.attempts[i].timer
    /\ images' = IF images.cache = 0
                 THEN [onError(images, i) EXCEPT !.attempts[i].timer = FALSE,
                                                 !.attempts[i].listeners = FALSE]
                 ELSE [images EXCEPT !.attempts[i].timer = FALSE]
    /\ UNCHANGED <<parserVars, routeVars, clientVars, mtt>>

\* clearCache()
ClearCache ==
    /\ images.cache # 0 \/ images.loading # 0
    /\ images' = [images EXCEPT !.cache = 0, !.loading = 0, !.cleared = TRUE]
    /\ UNCHANGED <<parserVars, routeVars, clientVars, mtt>>

\* The rounds the generator answers the client with: none, one or two blocks,
\* with equal texts, with a two-letter text, with blank text.
ClientRounds ==
    LET a == Narrator(<<" ", "a">>)
        blank == Narrator(<<" ">>)
        b == Character(<<"A">>, Say(<<"b", "c">>))
        c == Character(<<"A">>, Action(<<"H">>, <<"s">>) \o Say(<<"c">>) \o Say(<<" ">>))
    IN { <<>>, <<a>>, <<blank>>, <<a, a>>, <<a, b>>, <<b, c>>, <<c, blank>>, <<a, blank>> }

\* No save in a slot; no save restored.
NoSave == [gameStarted |-> FALSE, currentSegments |-> <<>>, currentSegmentIndex |-> -1,
           choices |-> <<>>, fastMode |-> FALSE, committed |-> 0]

\* Nothing restored: the save restored last, Len(history) at that moment, and
\* the number of restores so far.
NoRestore == [save |-> NoSave, at |-> 0, loads |-> 0]

ClientIdle ==
    /\ gameStarted = FALSE
    /\ isLoading = FALSE
    /\ fastMode = FALSE
    /\ currentSegments = <<>>
    /\ currentSegmentIndex = 0
    /\ choices = <<>>
    /\ tt = Unmounted
    /\ history = <<>>
    /\ respChoices = <<>>
    /\ rounds = 0
    /\ histAtLoad = 0
    /\ autoSave = NoSave
    /\ saves = <<>>
    /\ restored = NoRestore
    /\ historyWriteFails = FALSE

\* The other variables of the route.
serverVars == <<srvPc, generated, content, srvChoices, index, frames>>

\* fetchStory up to the fetch: setIsLoading(true), the body of the POST, and
\* the round the generator answers the request with.
Request(choice, fast, bs, cs) ==
    /\ rounds < MaxRounds
    /\ request' = [choice |-> choice, fastMode |-> fast, useLLM |-> FALSE]
    /\ rounds' = rounds + 1
    /\ isLoading' = TRUE
    /\ blocks' = bs
    /\ markup' = Concat(bs)
    /\ respChoices' = cs
    /\ sent' = 0
    /\ xmlContent' = <<>>
    /\ loaded' = NotLoaded

\* startGame, from the landing screen, with a prompt typed in.
StartGame(fast, bs, cs) ==
    /\ ~gameStarted
    /\ ~isLoading
    /\ Request(NoChoice, fast, bs, cs)
    /\ Commit([Changed EXCEPT !.started = TRUE, !.fast = fast,
                              !.hist = addToHistory(@, UserInputEntry("prompt"))])
    /\ UNCHANGED <<widgetVars, reader, historyWriteFails, histAtLoad, saves, restored, nChunks, parser, serverVars>>

\* data.type === 'content': xmlContent += data.data
ContentFrame(k) ==
    /\ isLoading
    /\ loaded = NotLoaded
    /\ k >= 1
    /\ sent + k <= Len(markup)
    /\ xmlContent' = xmlContent \o SubSeq(markup, sent + 1, sent + k)
    /\ sent' = sent + k
    /\ UNCHANGED <<widgetVars, reader, blocks, markup, nChunks, loaded, parser, routeVars, clientVars>>

\* data.type === 'complete': parse the accumulated markup and load the round.
CompleteFrame ==
    /\ isLoading
    /\ loaded = NotLoaded
    /\ sent = Len(markup)
    /\ LET segments == parseSimpleXML(xmlContent) IN
       /\ loaded' = <<segments>>
       /\ Commit([Changed EXCEPT !.segs = segments, !.idx = 0, !.choices = respChoices])
    /\ histAtLoad' = Len(history)
    /\ restored' = [NoRestore EXCEPT !.loads = restored.loads]
    /\ UNCHANGED <<widgetVars, reader, historyWriteFails, blocks, markup, sent, nChunks, xmlContent, parser, routeVars,
                   isLoading, respChoices, rounds, saves>>

\* The reader reports done after the complete frame: finally, setIsLoading(false).
StreamEnd ==
    /\ isLoading
    /\ loaded # NotLoaded
    /\ isLoading' = FALSE
    /\ Commit(View)
    /\ UNCHANGED <<widgetVars, historyWriteFails, parserVars, routeVars, respChoices, rounds, histAtLoad, saves,
                   restored>>

\* The stream ends early and what has arrived of the round is loaded.
StreamFailLoadsPartial ==
    /\ isLoading
    /\ loaded = NotLoaded
    /\ isLoading' = FALSE
    /\ Commit([Changed EXCEPT !.segs = parseSimpleXML(xmlContent), !.idx = 0])
    /\ blocks' = <<>>
    /\ markup' = <<>>
    /\ sent' = 0
    /\ xmlContent' = <<>>
    /\ UNCHANGED <<widgetVars, reader, historyWriteFails, nChunks, loaded, parser, routeVars, respChoices, rounds, histAtLoad,
                   saves, restored>>

\* The fetch or a read fails, or the stream ends, before the complete frame:
\* catch logs the error, finally runs setIsLoading(false).  The stream and
\* fetchStory's local xmlContent are gone.
StreamFail ==
    /\ isLoading
    /\ loaded = NotLoaded
    /\ isLoading' = FALSE
    /\ Commit(View)
    /\ blocks' = <<>>
    /\ markup' = <<>>
    /\ sent' = 0
    /\ xmlContent' = <<>>
    /\ UNCHANGED <<widgetVars, reader, historyWriteFails, nChunks, loaded, parser, routeVars, respChoices, rounds, histAtLoad,
                   saves, restored>>

\* The typing effect's timeout fires: one more character is displayed.
TimerTick ==
    /\ tt.mounted
    /\ tt.timer
    /\ Commit([View EXCEPT
                  !.tt.displayedText = Append(@, tt.text[tt.currentIndex + 1]),
                  !.tt.currentIndex = @ + 1])
    /\ UNCHANGED <<widgetVars, historyWriteFails, parserVars, routeVars, isLoading, respChoices, rounds, histAtLoad,
                   saves, restored>>

\* skipAnimation, from a click on the text or from any key press.
Skip ==
    /\ tt.mounted
    /\ ~tt.isComplete
    /\ Commit([View EXCEPT
                  !.tt.isSkipped = TRUE,
                  !.tt.displayedText = tt.text,
                  !.tt.currentIndex = Len(tt.text),
                  !.tt.isComplete = TRUE,
                  !.hist = SegmentCompleteHist(View),
                  !.idx = SegmentCompleteIdx(View),
                  !.saveDue = SegmentCompleteIdx(View) # currentSegmentIndex])
    /\ UNCHANGED <<widgetVars, historyWriteFails, parserVars, routeVars, isLoading, respChoices, rounds, histAtLoad,
                   saves, restored>>

\* The choice buttons rendered whenever there are choices, loading or not.
ChoicesShownWhileLoading == gameStarted /\ Len(choices) > 0

\* Are the choice buttons rendered?
ChoicesShown == gameStarted /\ Len(choices) > 0 /\ ~isLoading

\* handleChoice on the reserved id, keeping the segment list.
EndStoryChoiceKeepsList(c) ==
    /\ ChoicesShown
    /\ c.id = "end_story"
    /\ Commit([Changed EXCEPT
                  !.started = FALSE, !.idx = 0, !.choices = <<>>,
                  !.hist = addToHistory(addToHistory(@, UserChoiceEntry(c.text)),
                                        StoryEndedEntry)])
    /\ UNCHANGED <<widgetVars, historyWriteFails, parserVars, routeVars, isLoading, respChoices, rounds, histAtLoad,
                   saves, restored>>

\* handleChoice on the reserved id: log the end and go back to the landing screen.
EndStoryChoice(c) ==
    /\ ChoicesShown
    /\ c.id = "end_story"
    /\ Commit([Changed EXCEPT
                  !.started = FALSE, !.segs = <<>>, !.idx = 0, !.choices = <<>>,
                  !.hist = addToHistory(addToHistory(@, UserChoiceEntry(c.text)),
                                        StoryEndedEntry)])
    /\ UNCHANGED <<widgetVars, historyWriteFails, parserVars, routeVars, isLoading, respChoices, rounds, histAtLoad,
                   saves, restored>>

\* handleChoice on any other id, fetching the next round without logging the
\* choice.
HandleChoiceUnlogged(c, bs, cs) ==
    /\ ChoicesShown
    /\ c.id # "end_story"
    /\ Request(c.id, fastMode, bs, cs)
    /\ Commit([Changed EXCEPT !.choices = <<>>])
    /\ UNCHANGED <<widgetVars, reader, historyWriteFails, histAtLoad, saves, restored, nChunks, parser, serverVars>>

\* handleChoice without its test of the reserved id: every id is fetched.
HandleChoiceAnyId(c, bs, cs) ==
    /\ ChoicesShown
    /\ Request(c.id, fastMode, bs, cs)
    /\ Commit([Changed EXCEPT !.choices = <<>>,
                              !.hist = addToHistory(@, UserChoiceEntry(c.text))])
    /\ UNCHANGED <<widgetVars, reader, historyWriteFails, histAtLoad, saves, restored, nChunks, parser, serverVars>>

\* handleChoice on any other id: clear the choices, log the choice, fetch the
\* next round.
HandleChoice(c, bs, cs) ==
    /\ ChoicesShown
    /\ c.id # "end_story"
    /\ Request(c.id, fastMode, bs, cs)
    /\ Commit([Changed EXCEPT !.choices = <<>>,
                              !.hist = addToHistory(@, UserChoiceEntry(c.text))])
    /\ UNCHANGED <<widgetVars, reader, historyWriteFails, histAtLoad, saves, restored, nChunks, parser, serverVars>>

\* Is the story-complete panel rendered?
StoryCompleteShown ==
    /\ gameStarted
    /\ Len(choices) = 0
    /\ ~isLoading
    /\ Len(currentSegments) > 0
    /\ currentSegmentIndex >= Len(currentSegments) - 1

\* The panel's "Start New Adventure" button.
StartNewAdventure ==
    /\ StoryCompleteShown
    /\ Commit([Changed EXCEPT !.started = FALSE, !.segs = <<>>, !.idx = 0,
                              !.choices = <<>>])
    /\ UNCHANGED <<widgetVars, historyWriteFails, parserVars, routeVars, isLoading, respChoices, rounds, histAtLoad,
                   saves, restored>>

MAX_SAVES == 10
MaxSaves == 1      \* named saves written in one run
MaxLoads == 2      \* saves restored in one run

\* saveGame: push, then keep the most recent MAX_SAVES.
saveGame(list, save) ==
    LET pushed == Append(list, save) IN
    IF Len(pushed) > MAX_SAVES
    THEN SubSeq(pushed, Len(pushed) - MAX_SAVES + 1, Len(pushed))
    ELSE pushed

\* The save manager is opened (VisualNovel renders again) and the game on
\* screen is saved under a name.
Save ==
    /\ gameStarted
    /\ Len(saves) < MaxSaves
    /\ Commit(View)
    /\ saves' = saveGame(saves, GameState(View'))
    /\ UNCHANGED <<widgetVars, historyWriteFails, parserVars, routeVars, isLoading, respChoices, rounds, histAtLoad,
                   restored>>

\* The saves the save manager lists: the named ones and the auto-save.
Loadable == {saves[i] : i \in 1..Len(saves)} \cup ({autoSave} \ {NoSave})

\* The save manager is opened and a save is loaded: handleLoad.
Load(save) ==
    /\ restored.loads < MaxLoads
    /\ Commit([Changed EXCEPT
                  !.started = save.gameStarted,
                  !.segs = save.currentSegments,
                  !.idx = save.currentSegmentIndex,
                  !.choices = save.choices,
                  !.fast = save.fastMode])
    /\ restored' = [save |-> save, at |-> Len(history), loads |-> restored.loads + 1]
    /\ UNCHANGED <<widgetVars, historyWriteFails, parserVars, routeVars, isLoading, respChoices, rounds, histAtLoad,
                   saves>>

\* The sizes the next content frame can have: everything in fast mode, else
\* what pushChunk cuts.
FrameSizes ==
    IF fastMode THEN {Len(markup) - sent}
    ELSE {ChunkSize(r, Len(markup) - sent) : r \in 0..(ChunkSpan - 1)}

\* The landing screen, no request made yet.
Landing ==
    /\ RouteIdle
    /\ ClientIdle
    /\ blocks = <<>>
    /\ markup = <<>>
    /\ sent = 0
    /\ nChunks = 0
    /\ xmlContent = <<>>
    /\ loaded = NotLoaded
    /\ parser = NewParser
    /\ reader = NoReader

Init == Landing /\ mtt = NoMulti /\ images = NoImages

\* A MultiTypingText mounted with a list of texts, beside the landing screen.
InitMulti ==
    /\ Landing
    /\ images = NoImages
    /\ \E texts \in SegmentLists : mtt = MountedMulti(texts)

NextMulti ==
    \/ TypingDone
    \/ SkipSegment
    \/ AdvanceTimer

SpecMulti == InitMulti /\ [][NextMulti]_vars

\* The image cache of a page just opened.
InitImages == Landing /\ mtt = NoMulti /\ images = NoImages

NextImages ==
    \/ PreloadImage
    \/ \E i \in 1..Len(images.attempts) : ImgLoad(i)
    \/ \E i \in 1..Len(images.attempts) : ImgError(i)
    \/ \E i \in 1..Len(images.attempts) : Timeout(i)
    \/ ClearCache

SpecImages == InitImages /\ [][NextImages]_vars

Next ==
    \/ \E fast \in BOOLEAN, bs \in ClientRounds, cs \in ChoiceLists :
          StartGame(fast, bs, cs)
    \/ \E k \in FrameSizes : ContentFrame(k)
    \/ CompleteFrame
    \/ StreamEnd
    \/ StreamFail
    \/ TimerTick
    \/ Skip
    \/ \E i \in 1..Len(choices) : EndStoryChoice(choices[i])
    \/ \E i \in 1..Len(choices), bs \in ClientRounds, cs \in ChoiceLists :
          HandleChoice(choices[i], bs, cs)
    \/ StartNewAdventure

Spec == Init /\ [][Next]_vars

\* The typing effect's timeout fires when due, and the response stream comes
\* to its end (fetchStory's finally runs however the stream ends).
Fairness ==
    /\ WF_vars(TimerTick)
    /\ WF_vars(StreamEnd)


InitRoute == Init

NextRoute ==
    \/ \E req \in Requests :
          \E gen \in (IF req.useLLM THEN GeneratorOutcomes ELSE {NotGenerated}) :
              Post(req, gen)
    \/ PostMalformed
    \/ \E r \in 0..(ChunkSpan - 1) : PushChunk(r)
    \/ \E storyId \in {"intro", "venti_path", "nowhere"}, r \in 0..(ChunkSpan - 1) :
          Get(storyId, r)

SpecRoute == InitRoute /\ [][NextRoute]_vars

(***************************************************************************)
(* fetchStory's frame loop over one round, frames of any size              *)
(***************************************************************************)
\* The round bs has been requested from the landing screen and its stream
\* opened.
InitRound(bs) ==
    /\ RouteIdle
    /\ blocks = bs
    /\ markup = Concat(blocks)
    /\ sent = 0
    /\ nChunks = 0
    /\ xmlContent = <<>>
    /\ loaded = NotLoaded
    /\ parser = NewParser
    /\ reader = NoReader
    /\ gameStarted = TRUE
    /\ isLoading = TRUE
    /\ fastMode = FALSE
    /\ currentSegments = <<>>
    /\ currentSegmentIndex = 0
    /\ choices = <<>>
    /\ tt = Unmounted
    /\ history = <<UserInputEntry("prompt")>>
    /\ respChoices = <<>>
    /\ rounds = 1
    /\ histAtLoad = 0
    /\ autoSave = NoSave
    /\ saves = <<>>
    /\ restored = NoRestore
    /\ historyWriteFails = FALSE
    /\ mtt = NoMulti
    /\ images = NoImages

InitMarkup == \E bs \in BlockSeqs : InitRound(bs)

NextParser ==
    \/ \E k \in 1..Len(markup) : ContentFrame(k)
    \/ CompleteFrame

SpecParser == InitMarkup /\ [][NextParser]_vars

(***************************************************************************)
(* fetchStory loading one character block, or the narrator-and-character   *)
(* sample, sent whole as in fast mode                                      *)
(***************************************************************************)
MaxActions == 2    \* action entries in a character block
MaxSays == 3       \* say entries in a character block

ActionEntries ==
    { [expression |-> <<"H">>, text |-> <<"s">>],
      [expression |-> <<"S", "a">>, text |-> <<" ", "t", " ">>] }
SayEntries == { <<"b">>, <<" ", "c">>, <<" ">> }

ActionLists == UNION {[1..n -> ActionEntries] : n \in 0..MaxActions}
SayLists == UNION {[1..n -> SayEntries] : n \in 0..MaxSays}

\* The body of a character block in the format of the route's storySegments:
\* each action is followed by the say it goes with, then the entries left over.
RECURSIVE Body(_, _)
Body(as, ss) ==
    IF as = <<>> /\ ss = <<>> THEN <<>>
    ELSE (IF as # <<>> THEN Action(Head(as).expression, Head(as).text) ELSE <<>>)
         \o (IF ss # <<>> THEN Say(Head(ss)) ELSE <<>>)
         \o Body(IF as # <<>> THEN Tail(as) ELSE <<>>, IF ss # <<>> THEN Tail(ss) ELSE <<>>)

CharacterBlock(as, ss) == Character(<<"A">>, Body(as, ss))

\* <Narrator>A door creaks.</Narrator>
DoorNarrator ==
    Narrator(<<"A", " ", "d", "o", "o", "r", " ", "c", "r", "e", "a", "k", "s", ".">>)

\* <character name="Ari"><action expression="Happy">smiles</action><say>Hello!</say></character>
AriCharacter ==
    Character(<<"A", "r", "i">>,
              Action(<<"H", "a", "p", "p", "y">>, <<"s", "m", "i", "l", "e", "s">>)
                  \o Say(<<"H", "e", "l", "l", "o", "!">>))

\* Two character blocks, the second with a blank say between two others.
TwoCharacters ==
    <<AriCharacter, CharacterBlock(<<>>, << <<"b">>, <<" ">>, <<" ", "c">> >>)>>

\* A character block that opens with a line of dialogue, its only action
\* standing between the first say and the second.
SayFirst ==
    <<Character(<<"A">>, Say(<<"b">>) \o Action(<<"H">>, <<"s">>) \o Say(<<"c">>))>>

BlockRounds ==
    {<<CharacterBlock(as, ss)>> : as \in ActionLists, ss \in SayLists}
        \cup {<<DoorNarrator, AriCharacter>>, TwoCharacters, SayFirst}

InitBlock == \E bs \in BlockRounds : InitRound(bs)

NextBlock ==
    \/ ContentFrame(Len(markup) - sent)
    \/ CompleteFrame

SpecBlock == InitBlock /\ [][NextBlock]_vars

(***************************************************************************)
(* fetchStory loading a round whose markup begins with an opening tag that *)
(* is never closed, sent whole                                             *)
(***************************************************************************)
\* <Narrator>x   and   <character name="B"><say>d</say>
UnmatchedOpenings ==
    { NarratorOpen \o <<"x">>,
      CharacterOpenPrefix \o <<"B", "\"", ">">> \o Say(<<"d">>) }

MalformedRounds == {<<open>> \o bs : open \in UnmatchedOpenings, bs \in BlockSeqs}

InitMalformed == \E bs \in MalformedRounds : InitRound(bs)

NextMalformed ==
    \/ ContentFrame(Len(markup) - sent)
    \/ CompleteFrame

SpecMalformed == InitMalformed /\ [][NextMalformed]_vars

(***************************************************************************)
(* Playback of a last round: a round that carries no choices               *)
(***************************************************************************)
InitLast == \E bs \in BlockSeqs \cup ClientRounds \cup BlockRounds : InitRound(bs)

NextLast ==
    \/ \E k \in FrameSizes : ContentFrame(k)
    \/ CompleteFrame
    \/ StreamEnd
    \/ TimerTick
    \/ Skip
    \/ StartNewAdventure

SpecLive == InitLast /\ [][NextLast]_vars /\ Fairness

(***************************************************************************)
(* Playback of a last round while the history's storage may start to fail  *)
(***************************************************************************)
\* localStorage.setItem starts to throw (the quota is reached, the storage is
\* disabled): from now on addToHistory's write fails.
HistoryWriteBreaks ==
    /\ ~historyWriteFails
    /\ historyWriteFails' = TRUE
    /\ UNCHANGED <<widgetVars, parserVars, routeVars, gameStarted, isLoading, fastMode,
                   currentSegments, currentSegmentIndex, choices, tt, history,
                   respChoices, rounds, histAtLoad, autoSave, saves, restored>>

InitSink == \E bs \in ClientRounds \cup BlockRounds : InitRound(bs)

NextSink ==
    \/ ContentFrame(Len(markup) - sent)
    \/ CompleteFrame
    \/ StreamEnd
    \/ TimerTick
    \/ Skip
    \/ HistoryWriteBreaks

SpecSink == InitSink /\ [][NextSink]_vars

(***************************************************************************)
(* A session of the mock story: every round is requested with one of the   *)
(* choices the round before it offered                                      *)
(***************************************************************************)
MaxStoryRounds == 5    \* rounds requested in one session

\* The choices of a list that continue the story.
NonEndChoices(cs) == {i \in 1..Len(cs) : cs[i].id # "end_story"}

\* The POST of a session's round: the handler's part is Post's.
PostRound(req) ==
    /\ rounds < MaxStoryRounds
    /\ rounds' = rounds + 1
    /\ request' = req
    /\ generated' = NotGenerated
    /\ content' = PostContent(req, NotGenerated)
    /\ srvChoices' = PostChoices(req, NotGenerated)
    /\ index' = 0
    /\ IF req.fastMode
       THEN /\ frames' = << ContentFrameOf(PostContent(req, NotGenerated)),
                            CompleteFrameOf(PostChoices(req, NotGenerated)) >>
            /\ srvPc' = "closed"
       ELSE /\ frames' = <<>>
            /\ srvPc' = "streaming"
    /\ UNCHANGED <<widgetVars, parserVars, gameStarted, isLoading, fastMode, currentSegments,
                   currentSegmentIndex, choices, tt, history, respChoices,
                   histAtLoad, autoSave, saves, restored, historyWriteFails>>

\* The opening round: no choice in the request.
OpenStory(fast) ==
    /\ srvPc = "idle"
    /\ PostRound([choice |-> NoChoice, fastMode |-> fast, useLLM |-> FALSE])

\* The next round, requested with a choice of the round just delivered.
AnswerChoice(i, fast) ==
    /\ srvPc = "closed"
    /\ i \in NonEndChoices(srvChoices)
    /\ PostRound([choice |-> srvChoices[i].id, fastMode |-> fast, useLLM |-> FALSE])

InitStory == Init

NextStory ==
    \/ \E fast \in BOOLEAN : OpenStory(fast)
    \/ \E r \in 0..(ChunkSpan - 1) : PushChunk(r)
    \/ \E i \in 1..Len(srvChoices), fast \in BOOLEAN : AnswerChoice(i, fast)

SpecStory == InitStory /\ [][NextStory]_vars

(***************************************************************************)
(* fetchStory reading the response body: the frames as newline-delimited   *)
(* JSON, encoded to bytes, read in pieces, decoded, split into lines and    *)
(* parsed.  A byte or character is a string; the id and the text of a       *)
(* choice travel as one unit each, but for the text's first character when  *)
(* it is not ASCII.                                                         *)
(***************************************************************************)
MaxRead == 4         \* bytes of the smaller reads
MaxWireFrames == 2   \* content frames a round is cut into

Newline == "\n"
Backslash == "\\"

\* U+1F6AA, the first character of the end choice's text, and its UTF-8 bytes.
Door == "U+1F6AA"
DoorBytes == <<"F0", "9F", "9A", "AA">>
EndStoryTail == " End story and return to home"

\* The characters of a choice's text, and the text of a string of characters.
CharsOf(text) == IF text = EndStory.text THEN <<Door, EndStoryTail>> ELSE <<text>>
TextOf(chars) ==
    IF chars = <<Door, EndStoryTail>> THEN EndStory.text
    ELSE IF Len(chars) = 1 THEN chars[1] ELSE "?"

\* JSON.stringify of a string: quotes, backslashes and newlines are escaped.
EscapeChar(c) ==
    CASE c = Quote[1] -> <<Backslash, Quote[1]>>
      [] c = Backslash -> <<Backslash, Backslash>>
      [] c = Newline -> <<Backslash, "n">>
      [] OTHER -> <<c>>

JSONString(chars) ==
    Quote \o Concat([i \in 1..Len(chars) |-> EscapeChar(chars[i])]) \o Quote

ContentHead ==
    <<"{", "\"", "t", "y", "p", "e", "\"", ":", "\"", "c", "o", "n", "t",
      "e", "n", "t", "\"", ",", "\"", "d", "a", "t", "a", "\"", ":">>
ContentTail ==
    <<",", "\"", "i", "s", "C", "o", "m", "p", "l", "e", "t", "e", "\"", ":",
      "f", "a", "l", "s", "e", "}">>
CompleteHead ==
    <<"{", "\"", "t", "y", "p", "e", "\"", ":", "\"", "c", "o", "m", "p",
      "l", "e", "t", "e", "\"", ",", "\"", "d", "a", "t", "a", "\"", ":",
      "\"", "\"", ",", "\"", "i", "s", "C", "o", "m", "p", "l", "e", "t",
      "e", "\"", ":", "t", "r", "u", "e", ",", "\"", "c", "h", "o", "i", "c",
      "e", "s", "\"", ":", "[">>
CompleteTail == <<"]", "}">>
IdHead ==
    <<"{", "\"", "i", "d", "\"", ":">>
TextHead ==
    <<",", "\"", "t", "e", "x", "t", "\"", ":">>
ObjectTail == <<"}">>

RECURSIVE StringifyChoices(_)
StringifyChoices(cs) ==
    IF cs = <<>> THEN <<>>
    ELSE IdHead \o JSONString(<<Head(cs).id>>) \o TextHead
            \o JSONString(CharsOf(Head(cs).text)) \o ObjectTail
            \o (IF Len(cs) > 1 THEN <<",">> ELSE <<>>) \o StringifyChoices(Tail(cs))

\* JSON.stringify of a frame.
Stringify(frame) ==
    IF frame.type = "content"
    THEN ContentHead \o JSONString(frame.data) \o ContentTail
    ELSE CompleteHead \o StringifyChoices(frame.choices) \o CompleteTail

\* TextEncoder.encode: UTF-8.
TextEncode(chars) ==
    Concat([i \in 1..Len(chars) |-> IF chars[i] = Door THEN DoorBytes ELSE <<chars[i]>>])

\* What the route enqueues for a frame.
Enqueued(frame) == TextEncode(Stringify(frame) \o <<Newline>>)

\* TextDecoder.decode without { stream: true }: an incomplete sequence at the
\* end of the bytes becomes U+FFFD, and nothing is held back.
TextDecodeWhole(bytes) ==
    LET lead(i) == bytes[i] = DoorBytes[1]
        marked == [i \in 1..Len(bytes) |->
                      IF lead(i) THEN (IF i + 3 <= Len(bytes) THEN Door ELSE "U+FFFD")
                      ELSE IF bytes[i] \in {DoorBytes[2], DoorBytes[3], DoorBytes[4]}
                           THEN (IF \E j \in 1..3 : i - j >= 1 /\ lead(i - j) /\ i - j + 3 <= Len(bytes)
                                 THEN "" ELSE "U+FFFD")
                           ELSE bytes[i]]
    IN [chars |-> SelectSeq(marked, LAMBDA c : c # ""), pending |-> <<>>]

\* TextDecoder.decode(value, { stream: true }) on the bytes held back by the
\* call before followed by value: the characters decoded, and the bytes of an
\* incomplete sequence at the end, held back for the next call.
TextDecode(bytes) ==
    LET lead(i) == bytes[i] = DoorBytes[1]
        cut == {i \in 1..Len(bytes) : lead(i) /\ i + 3 > Len(bytes)}
        marked == [i \in 1..Len(bytes) |->
                      IF lead(i) THEN (IF i + 3 <= Len(bytes) THEN Door ELSE "")
                      ELSE IF bytes[i] \in {DoorBytes[2], DoorBytes[3], DoorBytes[4]} THEN ""
                           ELSE bytes[i]]
    IN [chars |-> SelectSeq(marked, LAMBDA c : c # ""),
        pending |-> IF cut = {} THEN <<>>
                    ELSE SubSeq(bytes, CHOOSE i \in cut : TRUE, Len(bytes))]

\* buffer.split('\n'): the pieces between the newlines, the last one being
\* what follows the last newline.
SplitLines(buffer) ==
    LET breaks == {i \in 1..Len(buffer) : buffer[i] = Newline}
        nth(k) == CHOOSE i \in breaks : Cardinality({j \in breaks : j < i}) = k - 1
    IN [k \in 1..(Cardinality(breaks) + 1) |->
           SubSeq(buffer,
                  IF k = 1 THEN 1 ELSE nth(k - 1) + 1,
                  IF k = Cardinality(breaks) + 1 THEN Len(buffer) ELSE nth(k) - 1)]

StartsWith(s, head) == Len(s) >= Len(head) /\ SubSeq(s, 1, Len(head)) = head
EndsWith(s, tail) == Len(s) >= Len(tail) /\ SubSeq(s, Len(s) - Len(tail) + 1, Len(s)) = tail

\* The inside of a JSON string: is it well formed, and what it stands for.
RECURSIVE WellEscaped(_)
WellEscaped(s) ==
    \/ s = <<>>
    \/ /\ Head(s) = Backslash
       /\ Len(s) >= 2
       /\ s[2] \in {Quote[1], Backslash, "n"}
       /\ WellEscaped(SubSeq(s, 3, Len(s)))
    \/ /\ Head(s) \notin {Backslash, Quote[1], Newline}
       /\ WellEscaped(Tail(s))

RECURSIVE Unescape(_)
Unescape(s) ==
    IF s = <<>> THEN <<>>
    ELSE IF Head(s) = Backslash
         THEN <<IF s[2] = "n" THEN Newline ELSE s[2]>> \o Unescape(SubSeq(s, 3, Len(s)))
         ELSE <<Head(s)>> \o Unescape(Tail(s))

\* The elements of the choices array: <<choices>>, or <<>> when they do not
\* parse.
RECURSIVE ParseChoices(_)
ParseChoices(s) ==
    IF s = <<>> THEN << <<>> >>
    ELSE IF ~(StartsWith(s, IdHead \o Quote) /\ Len(s) >= Len(IdHead) + 3) THEN <<>>
    ELSE LET id == s[Len(IdHead) + 2]
             afterId == SubSeq(s, Len(IdHead) + 3, Len(s))
         IN IF ~StartsWith(afterId, Quote \o TextHead \o Quote) THEN <<>>
            ELSE LET fromText == SubSeq(afterId, Len(TextHead) + 3, Len(afterId))
                     close == IndexOf(fromText, Quote, 1)
                 IN IF close = 0 THEN <<>>
                    ELSE LET text == SubSeq(fromText, 1, close - 1)
                             afterText == SubSeq(fromText, close + 1, Len(fromText))
                         IN IF ~(WellEscaped(text) /\ StartsWith(afterText, ObjectTail)) THEN <<>>
                            ELSE LET rest == SubSeq(afterText, Len(ObjectTail) + 1, Len(afterText))
                                     more == IF rest = <<>> THEN << <<>> >>
                                             ELSE IF Head(rest) = "," /\ Len(rest) > 1
                                                  THEN ParseChoices(Tail(rest)) ELSE <<>>
                                 IN IF more = <<>> THEN <<>>
                                    ELSE << <<Choice(id, TextOf(Unescape(text)))>> \o more[1] >>

\* JSON.parse of a line: <<frame>>, or <<>> when it throws.
JSONParse(line) ==
    IF StartsWith(line, ContentHead \o Quote) /\ EndsWith(line, Quote \o ContentTail)
       /\ Len(line) >= Len(ContentHead) + Len(ContentTail) + 2
    THEN LET body == SubSeq(line, Len(ContentHead) + 2, Len(line) - Len(ContentTail) - 1)
         IN IF WellEscaped(body) THEN <<ContentFrameOf(Unescape(body))>> ELSE <<>>
    ELSE IF StartsWith(line, CompleteHead) /\ EndsWith(line, CompleteTail)
            /\ Len(line) >= Len(CompleteHead) + Len(CompleteTail)
    THEN LET parsed == ParseChoices(SubSeq(line, Len(CompleteHead) + 1,
                                           Len(line) - Len(CompleteTail)))
         IN IF parsed = <<>> THEN <<>> ELSE <<CompleteFrameOf(parsed[1])>>
    ELSE <<>>

\* The frames of the lines that are not blank and that parse.
RECURSIVE FramesOf(_)
FramesOf(lines) ==
    IF lines = <<>> THEN <<>>
    ELSE (IF Trim(Head(lines)) # <<>> THEN JSONParse(Head(lines)) ELSE <<>>)
            \o FramesOf(Tail(lines))

\* The loop over the frames of one read: xmlContent, and <<segments, choices>>
\* of the last complete frame among them, if any.
RECURSIVE Handled(_, _, _)
Handled(fs, xml, load) ==
    IF fs = <<>> THEN [xml |-> xml, load |-> load]
    ELSE IF Head(fs).type = "content"
         THEN Handled(Tail(fs), xml \o Head(fs).data, load)
         ELSE Handled(Tail(fs), xml, <<parseSimpleXML(xml), Head(fs).choices>>)

\* reader.read() giving the next k bytes, and the body of the while loop.
Read(k) ==
    /\ isLoading
    /\ k \in 1..Len(reader.wire)
    /\ \E decoded \in {TextDecode(reader.pending \o SubSeq(reader.wire, 1, k))} :
       \E lines \in {SplitLines(reader.buffer \o decoded.chars)} :
       \E fs \in {FramesOf(SubSeq(lines, 1, Len(lines) - 1))} :
       \E h \in {Handled(fs, xmlContent, <<>>)} :
          /\ reader' = [wire |-> SubSeq(reader.wire, k + 1, Len(reader.wire)),
                        pending |-> decoded.pending,
                        buffer |-> lines[Len(lines)],
                        seen |-> reader.seen \o fs]
          /\ xmlContent' = h.xml
          /\ IF h.load = <<>>
             THEN UNCHANGED <<loaded, gameStarted, fastMode, currentSegments,
                              currentSegmentIndex, choices, tt, history, autoSave,
                              histAtLoad, restored>>
             ELSE /\ loaded' = <<h.load[1]>>
                  /\ Commit([Changed EXCEPT !.segs = h.load[1], !.idx = 0,
                                            !.choices = h.load[2]])
                  /\ histAtLoad' = Len(history)
                  /\ restored' = [NoRestore EXCEPT !.loads = restored.loads]
    /\ UNCHANGED <<widgetVars, blocks, markup, sent, nChunks, parser, routeVars, isLoading,
                   respChoices, rounds, saves, historyWriteFails>>

\* reader.read() reporting done: the loop is left, finally runs.
ReadDone ==
    /\ isLoading
    /\ reader.wire = <<>>
    /\ isLoading' = FALSE
    /\ Commit(View)
    /\ UNCHANGED <<widgetVars, parserVars, routeVars, respChoices, rounds, histAtLoad, saves,
                   restored, historyWriteFails>>

\* The rounds on the wire: one whose text has a quote, a newline and a
\* backslash, and one without markup.
WireRounds ==
    { << Narrator(<<Quote[1], Newline, Backslash, "n">>) >>,
      <<>> }

\* The ways the route cuts markup m into content frames: one frame with
\* everything, or up to MaxWireFrames frames, none of them empty.
RECURSIVE Cuttings(_, _)
Cuttings(m, n) ==
    IF m = <<>> THEN {<<>>}
    ELSE {<<ContentFrameOf(m)>>}
         \cup (IF n <= 1 THEN {}
               ELSE UNION {{<<ContentFrameOf(SubSeq(m, 1, k))>> \o rest :
                               rest \in Cuttings(SubSeq(m, k + 1, Len(m)), n - 1)} :
                           k \in 1..(Len(m) - 1)})

FramesOfRound(m, cs) ==
    {cut \o <<CompleteFrameOf(cs)>> : cut \in Cuttings(m, MaxWireFrames)}
        \cup {<<ContentFrameOf(m), CompleteFrameOf(cs)>>}

\* A round requested, its frames enqueued by the route and the stream closed,
\* nothing read yet.
InitWire ==
    \E bs \in WireRounds, cs \in ChoiceLists :
        \E fs \in FramesOfRound(Concat(bs), cs) :
            /\ blocks = bs
            /\ markup = Concat(bs)
            /\ sent = 0 /\ nChunks = 0 /\ xmlContent = <<>>
            /\ loaded = NotLoaded /\ parser = NewParser
            /\ reader = [NoReader EXCEPT
                            !.wire = Concat([i \in 1..Len(fs) |-> Enqueued(fs[i])])]
            /\ srvPc = "closed"
            /\ request = [choice |-> NoChoice, fastMode |-> FALSE, useLLM |-> FALSE]
            /\ generated = NotGenerated
            /\ content = Concat(bs)
            /\ srvChoices = cs
            /\ index = Len(Concat(bs))
            /\ frames = fs
            /\ gameStarted = TRUE /\ isLoading = TRUE /\ fastMode = FALSE
            /\ currentSegments = <<>> /\ currentSegmentIndex = 0 /\ choices = <<>>
            /\ tt = Unmounted
            /\ history = <<UserInputEntry("prompt")>>
            /\ respChoices = cs /\ rounds = 1 /\ histAtLoad = 0
            /\ autoSave = NoSave /\ saves = <<>> /\ restored = NoRestore
            /\ historyWriteFails = FALSE
            /\ mtt = NoMulti
            /\ images = NoImages

NextWire ==
    \/ \E k \in (1..MaxRead) \cup {Len(reader.wire)} : Read(k)
    \/ ReadDone

SpecWire == InitWire /\ [][NextWire]_vars

(***************************************************************************)
(* The conversation history in localStorage, over sessions                 *)
(***************************************************************************)
MaxAppends == 4    \* addToHistory calls in one run

\* An entry left in the stored history by earlier sessions.
StoredEntry == UserInputEntry("an earlier prompt")

\* The histories found in localStorage when the page is opened: none, or one
\* at or next to the limit.
StoredHistories ==
    {[k \in 1..n |-> StoredEntry] :
        n \in {0, MAX_HISTORY_ENTRIES - 1, MAX_HISTORY_ENTRIES}}

\* The entries startGame and handleChoice write.
NewEntries ==
    { UserInputEntry("prompt"),
      UserChoiceEntry("Continue the conversation"),
      StoryEndedEntry }

\* The entries of a history written in this run.
Appended(h) == SelectSeq(h, LAMBDA e : e # StoredEntry)

\* One call of saveManager.addToHistory.
AddToHistory(entry) ==
    /\ Len(Appended(history)) < MaxAppends
    /\ history' = addToHistory(history, entry)
    /\ UNCHANGED <<widgetVars, parserVars, routeVars, gameStarted, isLoading, fastMode,
                   currentSegments, currentSegmentIndex, choices, tt,
                   respChoices, rounds, histAtLoad, autoSave, saves, restored,
                   historyWriteFails>>

InitHistory ==
    /\ RouteIdle
    /\ blocks = <<>> /\ markup = <<>> /\ sent = 0 /\ nChunks = 0
    /\ xmlContent = <<>> /\ loaded = NotLoaded /\ parser = NewParser
    /\ reader = NoReader
    /\ gameStarted = FALSE /\ isLoading = FALSE /\ fastMode = FALSE
    /\ currentSegments = <<>> /\ currentSegmentIndex = 0 /\ choices = <<>>
    /\ tt = Unmounted
    /\ history \in StoredHistories
    /\ respChoices = <<>> /\ rounds = 0 /\ histAtLoad = 0
    /\ autoSave = NoSave /\ saves = <<>> /\ restored = NoRestore
    /\ historyWriteFails = FALSE
    /\ mtt = NoMulti
    /\ images = NoImages

NextHistory == \E entry \in NewEntries : AddToHistory(entry)

SpecHistory == InitHistory /\ [][NextHistory]_vars

(***************************************************************************)
(* Playback of a round with the save manager                               *)
(***************************************************************************)
InitSave == \E bs \in ClientRounds : InitRound(bs)

NextSave ==
    \/ \E k \in FrameSizes : ContentFrame(k)
    \/ CompleteFrame
    \/ StreamEnd
    \/ TimerTick
    \/ Skip
    \/ StartNewAdventure
    \/ Save
    \/ \E save \in Loadable : Load(save)

SpecSave == InitSave /\ [][NextSave]_vars

(***************************************************************************)
(* One XMLStreamParser fed the markup in chunks                            *)
(***************************************************************************)
ParseChunk(k) ==
    /\ nChunks < MaxChunks
    /\ sent + k <= Len(markup)
    /\ nChunks = MaxChunks - 1 => sent + k = Len(markup)
    /\ parser' = parseChunk(parser, SubSeq(markup, sent + 1, sent + k))
    /\ sent' = sent + k
    /\ nChunks' = nChunks + 1
    /\ UNCHANGED <<widgetVars, reader, blocks, markup, xmlContent, loaded, routeVars, clientVars>>

Reset ==
    /\ sent = Len(markup)
    /\ nChunks > 1
    /\ parser' = NewParser
    /\ sent' = 0
    /\ nChunks' = 0
    /\ UNCHANGED <<widgetVars, reader, blocks, markup, xmlContent, loaded, routeVars, clientVars>>

NextStream ==
    \/ \E k \in 0..Len(markup) : ParseChunk(k)
    \/ Reset

SpecStream == InitMarkup /\ [][NextStream]_vars

(***************************************************************************)
(* Claims about the extractors                                             *)
(***************************************************************************)
\* C1: the segment list loaded on the complete frame lists the segments in
\* the order in which their blocks appear in the markup: it is the segments
\* of the first block, then those of the second block, and so on.
C1_SourceOrder ==
    loaded # NotLoaded =>
        loaded[1] = Concat([i \in 1..Len(blocks) |-> parseSimpleXML(blocks[i])])

\* C6: once the last chunk is fed, the parser holds the same segment list as
\* a fresh parser fed the whole markup in one parseChunk call.
C6_ChunkInvariance ==
    sent = Len(markup) => parser.segments = parseXMLToSegments(markup)

\* C18: once the parser has consumed the complete markup, a further
\* parseChunk that adds no character returns the segment list it held: no
\* segment is duplicated and none is lost.
C18_IdempotentReparse ==
    [][(sent = Len(markup) /\ nChunks >= 1 /\ nChunks' = nChunks + 1)
         => parser'.segments = parser.segments]_vars

\* C10: every loaded segment has a text that is non-empty and trimmed.
C10_TextTrimmedNonEmpty ==
    loaded # NotLoaded =>
        \A i \in 1..Len(loaded[1]) :
            /\ loaded[1][i].text # <<>>
            /\ Trim(loaded[1][i].text) = loaded[1][i].text

\* The segments the pairing rule gives a character block with action list as
\* and say list ss: say i goes with action i when there is one, else it is
\* neutral with no action text; a say without text gives no segment.
Paired(as, ss) ==
    LET said == SelectSeq([i \in 1..Len(ss) |-> i], LAMBDA i : Trim(ss[i]) # <<>>) IN
    [k \in 1..Len(said) |->
        LET i == said[k] IN
        IF i <= Len(as)
        THEN CharacterSegment(<<"A">>, ToLowerCase(as[i].expression), Trim(ss[i]),
                              Trim(as[i].text))
        ELSE CharacterSegment(<<"A">>, Neutral, Trim(ss[i]), <<>>)]

\* C11: within one character block with action list A and say list S, the
\* i-th say is loaded with the i-th action's lower-cased expression and its
\* action text when i <= |A|, and as neutral with empty action text otherwise.
C11_ActionSayAlignment ==
    loaded # NotLoaded =>
        \A as \in ActionLists, ss \in SayLists :
            blocks = <<CharacterBlock(as, ss)>> => loaded[1] = Paired(as, ss)

\* Three say entries and one action: the first say carries the action, the
\* other two are neutral with empty action text.
C11_Witness ==
    /\ loaded # NotLoaded
    /\ blocks = <<CharacterBlock(<<[expression |-> <<"H">>, text |-> <<"s">>]>>,
                                 <<(<<"b">>), (<<" ", "c">>), (<<"b">>)>>)>>
    /\ loaded[1] = << CharacterSegment(<<"A">>, <<"h">>, <<"b">>, <<"s">>),
                      CharacterSegment(<<"A">>, Neutral, <<"c">>, <<>>),
                      CharacterSegment(<<"A">>, Neutral, <<"b">>, <<>>) >>

\* C12: the narrator block 'A door creaks.' followed by Ari's block (action
\* 'Happy' / 'smiles', say 'Hello!') loads exactly two segments: the narrator
\* 'A door creaks.', then Ari, 'happy', 'Hello!', 'smiles'.
C12_DoorSample ==
    (loaded # NotLoaded /\ blocks = <<DoorNarrator, AriCharacter>>) =>
        loaded[1] =
            << NarratorSegment(<<"A", " ", "d", "o", "o", "r", " ", "c", "r", "e", "a",
                                 "k", "s", ".">>),
               CharacterSegment(<<"A", "r", "i">>, <<"h", "a", "p", "p", "y">>,
                                <<"H", "e", "l", "l", "o", "!">>,
                                <<"s", "m", "i", "l", "e", "s">>) >>

C12_Witness ==
    /\ loaded # NotLoaded
    /\ blocks = <<DoorNarrator, AriCharacter>>
    /\ Len(loaded[1]) = 2

(***************************************************************************)
(* Claims about the route                                                  *)
(***************************************************************************)
\* The data payloads of the content frames, concatenated in emission order.
RECURSIVE Payloads(_)
Payloads(fs) ==
    IF fs = <<>> THEN <<>>
    ELSE (IF Head(fs).type = "content" THEN Head(fs).data ELSE <<>>) \o Payloads(Tail(fs))

\* C7: in both delivery modes the payloads of the content frames emitted so
\* far spell the part of the round's markup already sent, and the whole
\* markup once the stream is closed.
C7_PayloadsSpellContent ==
    /\ srvPc = "streaming" => Payloads(frames) = SubSeq(content, 1, index)
    /\ srvPc = "closed" => Payloads(frames) = content

C7_Witness ==
    /\ srvPc = "closed"
    /\ ~request.fastMode
    /\ Len(frames) >= 4

\* C8: a complete frame is the last frame of its round, is the only one,
\* carries the round's choices, and the stream is closed with it; a closed
\* stream ends with the complete frame.
C8_CompleteLastAndUnique ==
    /\ \A i \in 1..Len(frames) :
          frames[i].type = "complete" =>
              /\ i = Len(frames)
              /\ srvPc = "closed"
              /\ frames[i].choices = srvChoices
    /\ srvPc = "closed" => frames # <<>> /\ frames[Len(frames)].type = "complete"

C8_Witness ==
    /\ srvPc = "closed"
    /\ ~request.fastMode
    /\ Len(frames) >= 3
    /\ srvChoices # <<>>

CursorAtEnd ==
    /\ gameStarted
    /\ Len(currentSegments) > 0
    /\ currentSegmentIndex = Len(currentSegments) - 1
    /\ tt.mounted
    /\ tt.isComplete
    /\ tt.displayedText = currentSegments[currentSegmentIndex + 1].text

\* The story-segment entries appended since the current round was loaded.
RoundEntries ==
    SelectSeq(SubSeq(history, histAtLoad + 1, Len(history)),
              LAMBDA e : e.type = "story_segment")

\* C2: when a loaded round of K segments, all with text to reveal, has been
\* played to its end, the history holds exactly K story-segment entries for
\* it, one per segment and in segment order.
C2_OneEntryPerSegment ==
    (/\ CursorAtEnd
     /\ loaded # NotLoaded
     /\ \A i \in 1..Len(currentSegments) : currentSegments[i].text # <<>>)
    => RoundEntries = [i \in 1..Len(currentSegments) |->
                          StorySegmentEntry(currentSegments[i])]

\* C3: the choices of a round are on screen and selectable only once the
\* cursor has exhausted the list (the last segment is fully revealed), never
\* while an earlier segment is still active.
C3_ChoicesOnlyAtEnd ==
    (ChoicesShown /\ Len(currentSegments) > 0) => CursorAtEnd

\* C4: the segment list of a round being played is replaced by the next
\* round's list only after the cursor has reached the end of the round.
C4_NoPreemption ==
    [][(CompleteFrame /\ Len(currentSegments) > 0) => CursorAtEnd]_vars

\* C5: a skip while segment i is partially revealed leaves segment i fully
\* revealed and changes neither the segment list nor the index.
C5_SkipKeepsCursor ==
    [][(Skip /\ 0 < tt.currentIndex /\ tt.currentIndex < Len(tt.text))
         => /\ currentSegments' = currentSegments
            /\ currentSegmentIndex' = currentSegmentIndex
            /\ tt'.mounted
            /\ tt'.isComplete
            /\ tt'.displayedText = tt.text]_vars

\* C13: a round that yields no segment and carries no choice puts the player
\* in the story-complete state, not in a state with nothing to show and
\* nothing to select.
C13_EmptyRoundCompletes ==
    (/\ gameStarted
     /\ loaded # NotLoaded
     /\ ~isLoading
     /\ Len(currentSegments) = 0
     /\ Len(choices) = 0)
    => StoryCompleteShown

\* A round of at least one segment has been loaded without choices.
LastRoundLoaded ==
    /\ gameStarted
    /\ loaded # NotLoaded
    /\ Len(currentSegments) >= 1
    /\ Len(respChoices) = 0

\* C14: after a round of K >= 1 segments whose complete frame carries no
\* choice, with the reveal timer firing, the story-complete state is reached,
\* and once reached it is left only by leaving the session: the round enters
\* it once.
\* (TypingText resets its reveal only when its text prop changes, so a segment
\* whose text equals its predecessor's never completes and the cursor stays.)
C14_EndOfSession ==
    /\ LastRoundLoaded ~> StoryCompleteShown
    /\ [][(StoryCompleteShown /\ ~StoryCompleteShown') => ~gameStarted']_vars

\* C15: selecting the reserved choice 'end_story' resets the session: no
\* segment, index 0, no choice, not started, and no round is requested.
C15_EndStoryResets ==
    [][(\E i \in 1..Len(choices) : EndStoryChoice(choices[i]))
         => /\ currentSegments' = <<>>
            /\ currentSegmentIndex' = 0
            /\ choices' = <<>>
            /\ ~gameStarted'
            /\ ~isLoading'
            /\ rounds' = rounds
            /\ tt' = Unmounted]_vars

\* The end of the story was chosen during a round that had segments.
C15_Witness ==
    /\ ~gameStarted
    /\ currentSegments = <<>>
    /\ Len(history) >= 3
    /\ history[Len(history)] = StoryEndedEntry
    /\ history[Len(history) - 1].type = "user_choice"

\* The entries of played segments appended since the last restore.
SinceRestore ==
    SelectSeq(SubSeq(history, restored.at + 1, Len(history)),
              LAMBDA e : e.segmentData # NullSegment)

\* C16: after a save is restored, playback appends no entry for a segment
\* that had been committed before the save was written: the first segment
\* committed after the restore, the one at the restored index, is not among
\* the segments the round had committed at the save.
C16_NoRecommitAfterLoad ==
    (restored.save # NoSave /\ SinceRestore # <<>>)
        => restored.save.currentSegmentIndex >= restored.save.committed

C19_TimerDoesNotAdvance ==
    [][(TimerTick /\ \A i \in 1..Len(currentSegments) : currentSegments[i].text # <<>>)
         => currentSegmentIndex' = currentSegmentIndex]_vars

\* C20: within a round the index stays within 0 .. length-1 and moves by
\* steps of +1 only; it starts at 0 and skips nothing: the segments before
\* the index have been committed, each once and in list order.
C20_IndexMonotone ==
    /\ [](gameStarted /\ Len(currentSegments) > 0
            => currentSegmentIndex \in 0..(Len(currentSegments) - 1))
    /\ [][(gameStarted /\ gameStarted' /\ loaded' = loaded)
            => /\ currentSegments' = currentSegments
               /\ currentSegmentIndex' \in {currentSegmentIndex, currentSegmentIndex + 1}]_vars
    /\ [](gameStarted /\ loaded # NotLoaded
            => /\ Len(RoundEntries) >= currentSegmentIndex
               /\ \A k \in 1..currentSegmentIndex :
                      RoundEntries[k] = StorySegmentEntry(currentSegments[k]))

\* The cursor has moved to the second segment of a round.
C20_Witness ==
    /\ gameStarted
    /\ loaded # NotLoaded
    /\ Len(currentSegments) = 2
    /\ currentSegmentIndex = 1
    /\ tt.mounted
    /\ tt.text = currentSegments[2].text
    /\ currentSegments[1].text # currentSegments[2].text


(***************************************************************************)
(* Claims about the sizes and number of the frames of a round              *)
(***************************************************************************)
MaxChunk == MinChunk + ChunkSpan - 1

\* The content frames among the frames emitted so far.
ContentFrames == {i \in 1..Len(frames) : frames[i].type = "content"}

\* C21: in normal (non-fast) delivery of a round with markup, every content
\* frame carries between MinChunk and MaxChunk characters, and the closed
\* round has at least one content frame.
C21_ChunkWithinBounds ==
    (~request.fastMode /\ srvPc \in {"streaming", "closed"} /\ content # <<>>) =>
        /\ \A i \in ContentFrames : Len(frames[i].data) \in MinChunk..MaxChunk
        /\ srvPc = "closed" => ContentFrames # {}


(***************************************************************************)
(* Claims about choices, the history sink and skipping                     *)
(***************************************************************************)
\* The entries of the given type in a history.
EntriesOfType(hist, type) == SelectSeq(hist, LAMBDA e : e.type = type)

\* C22: selecting a choice other than 'end_story' appends exactly one
\* user-choice entry, the choice's text, to the history, requests one new
\* round with the choice's id, the entry being in the history when the request
\* is made, and clears the displayed choices, so that no choice can be selected
\* again until another round has brought its own.
C22_ChoiceCommittedThenRequested ==
    [][\A i \in 1..Len(choices) :
          (\E bs \in ClientRounds, cs \in ChoiceLists : HandleChoice(choices[i], bs, cs))
              => /\ EntriesOfType(history', "user_choice")
                     = Append(EntriesOfType(history, "user_choice"),
                              UserChoiceEntry(choices[i].text))
                 /\ rounds' = rounds + 1
                 /\ isLoading'
                 /\ request'.choice = choices[i].id
                 /\ choices' = <<>>
                 /\ ~ChoicesShown']_vars

C22_Witness ==
    /\ request.choice = "continue_1"
    /\ isLoading
    /\ rounds = 2
    /\ choices = <<>>
    /\ Len(EntriesOfType(history, "user_choice")) = 1


\* The reveal on screen is one step from its end, or can be skipped, and the
\* segment on screen is not the last.
RevealEndsBeforeLast ==
    /\ gameStarted
    /\ tt.mounted
    /\ ~tt.isComplete
    /\ currentSegmentIndex < Len(currentSegments) - 1

\* C23: when the write of the history fails, the failure stays inside
\* addToHistory: the step that completes the reveal of a segment other than the
\* last (the last tick of the timer, or a skip) still moves the cursor forward,
\* and leaves the stored history as it was.
C23_SinkFailureDoesNotBlock ==
    [][(historyWriteFails /\ RevealEndsBeforeLast
          /\ (Skip \/ (TimerTick /\ tt.currentIndex + 1 = Len(tt.text))))
        => /\ currentSegmentIndex' > currentSegmentIndex
           /\ history' = history]_vars

C23_Witness ==
    /\ historyWriteFails
    /\ gameStarted
    /\ Len(currentSegments) = 3
    /\ currentSegmentIndex = 2
    /\ tt.mounted /\ tt.isComplete
    /\ history = <<UserInputEntry("prompt")>>


\* C24: the history is append-only: a call of addToHistory leaves every entry
\* already in the log where it was and adds the new one after them.
C24_AppendOnly ==
    [][\A entry \in NewEntries :
          AddToHistory(entry) => history' = Append(history, entry)]_vars


\* The reveal on screen was ended by a skip.
Skipped == tt.mounted /\ tt.isSkipped

\* C25: after a skip the timer is not pending and does not fire for the
\* skipped segment, the text displayed is the segment's full text, and the
\* segment's completion is reported once, by the skip itself: one entry for
\* the segment follows the history the skip found, and none is added while the
\* skipped reveal stays on screen.
C25_SkipEndsReveal ==
    /\ [](Skipped => /\ ~tt.timer
                     /\ tt.isComplete
                     /\ tt.displayedText = tt.text)
    /\ [][Skip => /\ Len(history') > Len(history)
                  /\ SubSeq(history', 1, Len(history) + 1)
                       = Append(history, StorySegmentEntry(currentSegments[currentSegmentIndex + 1]))
                  /\ (history # <<>> /\ Len(RoundEntries) > 0)
                       => RoundEntries[Len(RoundEntries)]
                            # StorySegmentEntry(currentSegments[currentSegmentIndex + 1])]_vars
    /\ [][(Skipped /\ Skipped')
            => EntriesOfType(history', "story_segment")
                 = EntriesOfType(history, "story_segment")]_vars


(***************************************************************************)
(* Claims about fast delivery and the mock story                           *)
(***************************************************************************)
\* C26: in fast mode the frames of a round are exactly two: one content frame
\* carrying the round's whole markup, then the complete frame with the
\* round's choices; the stream is closed at once.
C26_FastModeOneFrame ==
    request.fastMode =>
        \/ srvPc \in {"idle", "failed"}
        \/ /\ srvPc = "closed"
           /\ frames = << ContentFrameOf(content), CompleteFrameOf(srvChoices) >>
           /\ content = PostContent(request, generated)
           /\ srvChoices = PostChoices(request, generated)

C26_Witness ==
    /\ request.fastMode
    /\ srvPc = "closed"
    /\ Len(content) > MaxChunk
    /\ srvChoices # <<>>
    /\ Len(frames) = 2


\* C27: in a session of the mock story no more than three rounds are
\* requested: the third round, whatever the choices that led to it, has no
\* choice to offer (a round without choices ends the story), so that no
\* sequence of offered choices goes on for ever.
C27_StoryEndsWithinThreeRounds ==
    /\ rounds <= 3
    /\ (rounds = 3 /\ srvPc \in {"streaming", "closed"}) => srvChoices = <<>>

C27_Witness ==
    /\ rounds = 3
    /\ srvPc = "closed"
    /\ ~request.fastMode
    /\ request.choice = "talk_zhongli"
    /\ frames[Len(frames)] = CompleteFrameOf(<<>>)


(***************************************************************************)
(* Claims about the response body                                          *)
(***************************************************************************)
\* Everything the route enqueued has been read.
AllRead == reader.wire = <<>>

\* C28: however the round's markup is cut into content frames and however the
\* bytes of the newline-delimited frames are cut into reads, the frames the
\* client processes are, in order, the frames the route enqueued, and once
\* everything is read the segments loaded are parseSimpleXML of the whole
\* markup and the choices are those of the complete frame.
C28_FragmentationInvariance ==
    /\ Len(reader.seen) <= Len(frames)
    /\ reader.seen = SubSeq(frames, 1, Len(reader.seen))
    /\ AllRead =>
          /\ reader.seen = frames
          /\ reader.buffer = <<>> /\ reader.pending = <<>>
          /\ xmlContent = markup
          /\ loaded = <<parseSimpleXML(markup)>>
          /\ currentSegments = parseSimpleXML(markup)
          /\ choices = srvChoices

C28_Witness ==
    /\ AllRead
    /\ ~isLoading
    /\ Len(frames) = 3
    /\ \E i \in 1..Len(markup) : markup[i] = Newline
    /\ Len(choices) = 2
    /\ Len(currentSegments) = 1


\* The segment on screen is the last one and its reveal has ended.
LastSegmentRevealed ==
    /\ currentSegmentIndex = Len(currentSegments) - 1
    /\ tt.mounted
    /\ tt.isComplete
    /\ tt.displayedText = tt.text

\* C29: the story-complete panel is rendered only when the cursor is at the
\* last segment and that segment is fully revealed, never while the last
\* segment is still being revealed.
C29_CompleteOnlyWhenRevealed == StoryCompleteShown => LastSegmentRevealed


(***************************************************************************)
(* Claims about the order of the character segments                        *)
(***************************************************************************)
\* The texts of the character segments, in the order of the result.
CharacterTexts(segments) ==
    LET cs == SelectSeq(segments, LAMBDA s : s.type = "character")
    IN [i \in 1..Len(cs) |-> cs[i].text]

\* The say entries of the whole markup in the order they are written,
\* trimmed, the blank ones left out.
SaysInSourceOrder(s) ==
    LET says == sayRegex(s, 1)
        trimmed == [i \in 1..Len(says) |-> Trim(says[i])]
    IN SelectSeq(trimmed, LAMBDA t : t # <<>>)

\* C30: the character segments come in the order of their character blocks
\* and, within a block, in the order of its say entries: read in order, their
\* texts are the say entries of the markup in the order they are written.
C30_CharacterSegmentOrder ==
    loaded # NotLoaded => CharacterTexts(loaded[1]) = SaysInSourceOrder(markup)

C30_Witness ==
    /\ loaded # NotLoaded
    /\ Len(loaded[1]) = 3
    /\ \A i \in 1..3 : loaded[1][i].type = "character"
    /\ loaded[1][1].name # loaded[1][2].name
    /\ loaded[1][2].name = loaded[1][3].name
    /\ loaded[1][2].text = <<"b">>
    /\ loaded[1][3].text = <<"c">>


(***************************************************************************)
(* Claims about the pairing of actions and says                            *)
(***************************************************************************)
\* Where the say entries and the action entries of a block's content start.
SayStarts(c) == {p \in 1..Len(c) : MatchAt(c, SayOpen, p)}
ActionStarts(c) == {p \in 1..Len(c) : MatchAt(c, ActionOpenPrefix, p)}

\* The text of the say written at p, trimmed.
SayAt(c, p) ==
    Trim(SubSeq(c, p + Len(SayOpen), IndexOf(c, Lt, p + Len(SayOpen)) - 1))

\* The expression, lower-cased, and the text, trimmed, of the action written
\* at p.
ActionAt(c, p) ==
    LET n == p + Len(ActionOpenPrefix)
        q == IndexOf(c, Quote, n)
    IN [expression |-> ToLowerCase(SubSeq(c, n, q - 1)),
        action |-> Trim(SubSeq(c, q + 2, IndexOf(c, Lt, q + 2) - 1))]

\* Does segment seg carry an annotation?
Annotated(seg) == seg.type = "character" /\ (seg.action # <<>> \/ seg.expression # Neutral)

\* C31: an action is paired with the dialogue line that follows it: the
\* expression and action text of a character segment are those of an action
\* written, in the segment's character block, before a say with the
\* segment's text, never those of an action written after it.
C31_ActionPrecedesItsSay ==
    loaded # NotLoaded =>
        \A i \in 1..Len(loaded[1]) :
            Annotated(loaded[1][i]) =>
                \E m \in {characterRegex(markup, 1)[k] : k \in 1..Len(characterRegex(markup, 1))} :
                    /\ m.name = loaded[1][i].name
                    /\ \E p \in SayStarts(m.content), a \in ActionStarts(m.content) :
                          /\ a < p
                          /\ SayAt(m.content, p) = loaded[1][i].text
                          /\ ActionAt(m.content, a).expression = loaded[1][i].expression
                          /\ ActionAt(m.content, a).action = loaded[1][i].action


(***************************************************************************)
(* Claims about malformed markup                                           *)
(***************************************************************************)
\* C32: an opening tag that has no close of its own produces no segment and
\* does not change the segments of the well-formed blocks that follow it:
\* the segments loaded are those of the blocks after it alone.
C32_UnmatchedOpeningLeftPending ==
    (loaded # NotLoaded /\ blocks[1] \in UnmatchedOpenings) =>
        loaded[1] = parseSimpleXML(Concat(Tail(blocks)))


(***************************************************************************)
(* Claims about the two extractors                                         *)
(***************************************************************************)
\* C33: on a complete round markup the streaming extractor, fed the whole
\* markup in one parseChunk call as parseXMLToSegments does, returns the
\* segment list that parseSimpleXML returns.
\* A segment list with an absent action read as the empty action.
ActionDefaulted(segments) ==
    [i \in 1..Len(segments) |->
        IF segments[i].type = "character" /\ segments[i].action = Undefined
        THEN [segments[i] EXCEPT !.action = <<>>] ELSE segments[i]]

C33_RegexIsOnePassOfStream ==
    (nChunks = 1 /\ sent = Len(markup)) =>
        ActionDefaulted(parser.segments) = parseSimpleXML(markup)


(***************************************************************************)
(* Claims about the reveal of each segment                                 *)
(***************************************************************************)
\* The round on screen is the one loaded, and all its segments have text.
RoundWithText ==
    /\ gameStarted
    /\ loaded # NotLoaded
    /\ currentSegments = loaded[1]
    /\ currentSegments # <<>>
    /\ \A i \in 1..Len(currentSegments) : currentSegments[i].text # <<>>

\* One entry per segment of the round, in list order.
AllEntries == [k \in 1..Len(currentSegments) |-> StorySegmentEntry(currentSegments[k])]

\* C34: whenever the cursor moves to a segment, by the load of a round or by
\* an advance, the segment starts not yet revealed; with the reveal timer
\* firing every segment of the round becomes fully revealed and its
\* completion is reported, exactly once, whatever the texts of the segments
\* before it.  (Stated on rounds whose segments all have text.)
C34_RevealLiveness ==
    /\ [][(RoundWithText' /\ tt'.mounted
            /\ (loaded' # loaded \/ currentSegmentIndex' # currentSegmentIndex))
          => (~tt'.isComplete /\ tt'.displayedText # tt'.text)]_vars
    /\ [](RoundWithText =>
            /\ Len(RoundEntries) <= Len(AllEntries)
            /\ RoundEntries = SubSeq(AllEntries, 1, Len(RoundEntries)))
    /\ RoundWithText ~> (~gameStarted \/ (RoundEntries = AllEntries /\ CursorAtEnd))


(***************************************************************************)
(* Claims about the flows that write the cursor                            *)
(***************************************************************************)
\* startGame or handleChoice issues a round request.
RequestIssued ==
    \/ \E fast \in BOOLEAN, bs \in ClientRounds, cs \in ChoiceLists : StartGame(fast, bs, cs)
    \/ \E i \in 1..Len(choices), bs \in ClientRounds, cs \in ChoiceLists :
          HandleChoice(choices[i], bs, cs)

\* C35: at most one round request is in flight: a request is issued only
\* while none is loading, and while one is loading the frames that arrive are
\* those of the one round requested: its markup and choices do not change
\* until loading ends.
C35_OneRequestInFlight ==
    /\ [][RequestIssued => (~isLoading /\ isLoading' /\ rounds' = rounds + 1)]_vars
    /\ [][(isLoading /\ isLoading')
            => (rounds' = rounds /\ markup' = markup /\ respChoices' = respChoices)]_vars

\* The choices of a round are loaded and its stream has not ended: the
\* buttons are not rendered yet.
C35_Witness ==
    /\ isLoading
    /\ gameStarted
    /\ loaded # NotLoaded
    /\ Len(choices) > 0
    /\ rounds = 2


\* A save has been restored by handleLoad since the round in flight was
\* requested, and the round is not loaded yet.
RestoredInFlight == isLoading /\ loaded = NotLoaded /\ restored.save # NoSave

\* C36: a saved state restored by handleLoad while a round request is in
\* flight is not overwritten afterwards: the arrival of that round's complete
\* frame does not replace the restored segments, index and choices.
C36_RestoreNotOverwritten ==
    [][(RestoredInFlight /\ CompleteFrame)
         => /\ currentSegments' = currentSegments
            /\ currentSegmentIndex' = currentSegmentIndex
            /\ choices' = choices]_vars


(***************************************************************************)
(* Claims about the reserved choice                                        *)
(***************************************************************************)
\* C37: the reserved id 'end_story' is never sent to the generator: every
\* round request of the client carries no choice (the session's start) or a
\* choice id other than 'end_story', and selecting 'end_story' issues no
\* request.
C37_EndStoryNeverSent ==
    /\ [](request.choice # "end_story")
    /\ [][(\E i \in 1..Len(choices) : choices[i].id = "end_story" /\ EndStoryChoice(choices[i]))
            => (request' = request /\ rounds' = rounds /\ ~isLoading')]_vars

\* 'end_story' was selected in the second round, after a request that
\* carried another choice.
C37_Witness ==
    /\ ~gameStarted
    /\ rounds = 2
    /\ request.choice = "continue_1"
    /\ history # <<>>
    /\ history[Len(history)] = StoryEndedEntry


(***************************************************************************)
(* Claims about MultiTypingText                                            *)
(***************************************************************************)
\* C38: for one list of segments, MultiTypingText calls onAllComplete at most
\* once and never records more completed segments than the list has, whether
\* the segments end by typing or by a skip at any position.
C38_AllCompleteOnce ==
    /\ mtt.allComplete <= 1
    /\ Len(mtt.completedSegments) <= Len(mtt.segments)

(***************************************************************************)
(* Claims about the image cache                                            *)
(***************************************************************************)
\* The attempts whose image is still loading and whose promise is pending.
InFlight ==
    {i \in 1..Len(images.attempts) :
        images.attempts[i].img = "pending" /\ images.attempts[i].promise = "pending"}

\* C39: at most one load of the src is in flight, whatever the order of the
\* calls, the load and error events and the timeouts of earlier attempts; a
\* call made while a load is pending returns the pending promise and starts
\* no load; and the src is never both cached and loading.  (Stated on the
\* behaviours without clearCache.)
C39_OneLoadPerSrc ==
    /\ [](~images.cleared => Cardinality(InFlight) <= 1)
    /\ [](~(images.cache # 0 /\ images.loading # 0))
    /\ [][(PreloadImage /\ images.cache = 0 /\ images.loading # 0)
            => (images'.attempts = images.attempts
                /\ images'.returned = "pending promise")]_vars

====
